---- MODULE Spec2Model ----
(***************************************************************************)
(* A model of the xplainable MCP server: the lazy client accessor, the     *)
(* registration of tool wrappers, the wrappers' call/log/re-raise pattern, *)
(* the merge of generated tools into service files, the sync report, the   *)
(* discovery of the upstream methods, the configuration from the           *)
(* environment, the static scan of the service files, and the unlocked     *)
(* steps of add_tool_to_service, get_client and a run of the workflow.     *)
(*                                                                         *)
(* Strings of the program are TLA+ strings.  A text with line breaks is    *)
(* the sequence of its lines, i.e. what text.split('\n') returns; the      *)
(* text itself is '\n'.join of that sequence, so the two are in bijection  *)
(* (a text always has at least one line, possibly the empty one).          *)
(***************************************************************************)
EXTENDS Integers, Sequences, FiniteSets, TLC

VARIABLES
    client,       \* module -> the module-global _client (None or an instance)
    ctorCalls,    \* module -> number of XplainableClient(...) invocations
    built,        \* number of instances constructed so far (instance ids)
    getCalls,     \* number of get_client() calls made
    lastGet,      \* the last get_client() call: module, path taken, outcome
    enable_write_tools, \* config.enable_write_tools of server.py
    imported,     \* the modules imported so far
    registered,   \* FastMCP instance -> the wrappers registered on it
    registry,     \* tool_registry._registry: the cached ToolRegistry
    lastList,     \* <<result>> of the last server.list_tools() call
    lastDict,     \* <<result>> of the last ToolRegistry.to_dict() call
    invocations,  \* number of wrapper invocations made
    lastInv,      \* <<record>> of the last wrapper invocation
    lastGuarded,  \* <<record>> of the last guarded call of an upstream method
    lastInfo,     \* <<record>> of the last get_connection_info() call
    serviceFile,  \* the lines of tools/models.py (<<>>: no such file)
    initFile,     \* the services imported by tools/__init__.py
    lastSteps,    \* the add_tool_to_service calls of the last operation
    runs,         \* the last two consecutive sync_all_tools calls
    mergeOps,     \* number of operations on the service file
    dirFiles,     \* the other *.py files of the tools directory, by stem
    failRuns,     \* number of sync_all_tools runs in which tools may fail
    expected,     \* the decorated upstream methods (indices in Methods)
    actual,       \* the names of the current tools of the server module
    lastReport,   \* <<result>> of the last generate_sync_report call
    lastValidation, \* <<result>> of the last validate_tools call
    lastRun,      \* <<record>> of the last run of sync_workflow.main
    syncRuns,     \* number of runs of sync_workflow.main
    discoveries,  \* the records of the discoveries of upstream methods made
    api_key_env,  \* os.environ XPLAINABLE_API_KEY: <<>> unset, else <<value>>
    lastLoad,     \* <<record>> of the last load_config() call
    adders,       \* process -> its position in add_tool_to_service
    callers,      \* caller -> its position in get_client()
    dispatch,     \* how requests are dispatched: one at a time or in threads
    run,          \* the run of sync_workflow.main in progress, step by step
    lastScan      \* <<record>> of the last static scan of the service file

clientVars == <<client, ctorCalls, built, getCalls, lastGet>>

toolsVars == <<enable_write_tools, imported, registered, registry, lastList, lastDict>>

wrapVars == <<invocations, lastInv, lastGuarded, lastInfo>>

mergeVars == <<serviceFile, initFile, lastSteps, runs, mergeOps, dirFiles, failRuns>>

reportVars == <<expected, actual, lastReport, lastValidation, lastRun, syncRuns>>

configVars == <<api_key_env, lastLoad>>

concVars == <<adders, callers, dispatch, run, lastScan>>

vars == <<clientVars, toolsVars, wrapVars, mergeVars, reportVars, discoveries, configVars, concVars>>

\* What an operation of one part leaves alone: the state of the other parts.
notClient == <<toolsVars, wrapVars, mergeVars, reportVars, discoveries, configVars, concVars>>

notTools == <<clientVars, wrapVars, mergeVars, reportVars, discoveries, configVars, concVars>>

notClientNorWrapper == <<toolsVars, mergeVars, reportVars, discoveries, configVars, concVars>>

notMerge == <<clientVars, toolsVars, wrapVars, reportVars, discoveries, configVars, concVars>>

notReport == <<clientVars, toolsVars, wrapVars, mergeVars, discoveries, configVars, concVars>>

notReportNorMerge == <<clientVars, toolsVars, wrapVars, discoveries, configVars, concVars>>

notReportNorMergeNorRun == <<clientVars, toolsVars, wrapVars, discoveries, configVars>>

(***************************************************************************)
(* Bounds of the model.                                                    *)
(***************************************************************************)
MaxGetCalls == 5

MaxInvocations == 2

MaxMergeOps == 3

MaxSyncRuns == 1

MaxAddCalls == 2

MaxStepRuns == 2

MaxFailRuns == 2

MaxDiscoveries == 1

(***************************************************************************)
(* Client accessor: client_manager.get_client and server.get_client.       *)
(***************************************************************************)
None == 0

\* The values an environment variable may have: unset, or set to a string.
EnvValues(strings) == {<<>>} \cup {<<v>> : v \in strings}

\* os.getenv(name, default)
GetEnv(value, default) == IF value = <<>> THEN default ELSE value[1]

\* `if not api_key:` of load_config is false: the variable is set and not
\* empty.  The first definition is the faulty variant that only asks
\* whether the variable is set.
HasApiKeyWhenSet(value) == value # <<>>
HasApiKey(value) == value # <<>> /\ value[1] # ""

\* The two modules that each hold their own module-global _client.
ClientModules == {"server", "client_manager"}

\* What the environment does when the client is constructed: the import and
\* the constructor succeed, the import fails, or the constructor raises.
BuildOutcomes == {"ok", "ImportError", "Exception"}

\* `if _client is None:` -- the second definition; the first is the faulty
\* variant that constructs on every call.
NeedsConstructionAlways(c) == TRUE

NeedsConstruction(c) == c = None

\* What a failed construction raises to the caller of get_client().
ConstructionFailure(m) ==
    IF m = "server" THEN "SystemExit" ELSE "RuntimeError"

ClientInit ==
    /\ client = [m \in ClientModules |-> None]
    /\ ctorCalls = [m \in ClientModules |-> 0]
    /\ built = 0
    /\ getCalls = 0
    /\ lastGet = [mod |-> "none", path |-> "none", outcome |-> "none", ret |-> None]

\* The body of get_client() in module m; env is what construction would do.
GetClientEffect(m, env) ==
    /\ getCalls' = getCalls + 1
    /\ IF NeedsConstruction(client[m])
       THEN CASE env = "ok" ->
                   /\ ctorCalls' = [ctorCalls EXCEPT ![m] = @ + 1]
                   /\ built' = built + 1
                   /\ client' = [client EXCEPT ![m] = built + 1]
                   /\ lastGet' = [mod |-> m, path |-> "constructed",
                                  outcome |-> "ok", ret |-> built + 1]
              [] env = "ImportError" ->
                   /\ UNCHANGED <<ctorCalls, built, client>>
                   /\ lastGet' = [mod |-> m, path |-> "failed",
                                  outcome |-> ConstructionFailure(m), ret |-> None]
              [] env = "Exception" ->
                   /\ ctorCalls' = [ctorCalls EXCEPT ![m] = @ + 1]
                   /\ UNCHANGED <<built, client>>
                   /\ lastGet' = [mod |-> m, path |-> "failed",
                                  outcome |-> ConstructionFailure(m), ret |-> None]
       ELSE /\ UNCHANGED <<ctorCalls, built, client>>
            /\ lastGet' = [mod |-> m, path |-> "cached",
                           outcome |-> "ok", ret |-> client[m]]

\* One call of get_client() in module m.  The server module is there to be
\* called only when the load_config() of its import returned.
get_client(m, env) ==
    /\ getCalls < MaxGetCalls
    /\ m = "server" => HasApiKey(api_key_env)
    /\ GetClientEffect(m, env)
    /\ UNCHANGED notClient

GetClientCall == \E m \in ClientModules, env \in BuildOutcomes : get_client(m, env)

(***************************************************************************)
(* String helpers: Python's `p in s` and s.lower().                        *)
(***************************************************************************)
\* `p in s` for str: p occurs in s as a contiguous substring.
Contains(s, p) ==
    \E i \in 1..(Len(s) - Len(p) + 1) : SubSeq(s, i, i + Len(p) - 1) = p

Upper == <<"A","B","C","D","E","F","G","H","I","J","K","L","M",
           "N","O","P","Q","R","S","T","U","V","W","X","Y","Z">>

LowerOf == <<"a","b","c","d","e","f","g","h","i","j","k","l","m",
             "n","o","p","q","r","s","t","u","v","w","x","y","z">>

LowerChar(c) ==
    IF \E k \in 1..26 : Upper[k] = c
    THEN LowerOf[CHOOSE k \in 1..26 : Upper[k] = c]
    ELSE c

RECURSIVE Lower(_)
Lower(s) ==
    IF Len(s) = 0 THEN s
    ELSE LowerChar(SubSeq(s, 1, 1)) \o Lower(SubSeq(s, 2, Len(s)))

(***************************************************************************)
(* The tool wrappers of the repository: server.py and the modules of the   *)
(* tools package.  `guarded` says that the definition sits inside          *)
(* `if config.enable_write_tools:`; `category` is the category the source  *)
(* declares for the wrapper: the section of server.py it is written in,    *)
(* or the `Category:` line of its docstring in a tools module; `desc` is   *)
(* the first line of its docstring.                                        *)
(***************************************************************************)
Tool(n, m, c, g, d) ==
    [name |-> n, module |-> m, category |-> c, guarded |-> g, desc |-> d]

ServerToolDefs == <<
    Tool("list_tools", "server", "discovery", FALSE,
         "List all available MCP tools and their descriptions."),
    Tool("get_connection_info", "server", "read", FALSE,
         "Return connection and user info for diagnostics (no secrets)."),
    Tool("list_team_models", "server", "read", FALSE,
         "List models for the current team or a provided team_id."),
    Tool("get_model", "server", "read", FALSE,
         "Get detailed information about a model by id."),
    Tool("list_model_versions", "server", "read", FALSE,
         "List all versions for a model."),
    Tool("list_deployments", "server", "read", FALSE,
         "List deployments for the team."),
    Tool("get_active_team_deploy_keys_count", "server", "read", FALSE,
         "Return the count of active deploy keys for a team."),
    Tool("list_preprocessors", "server", "read", FALSE,
         "List preprocessors for the team."),
    Tool("get_preprocessor", "server", "read", FALSE,
         "Get a preprocessor by id."),
    Tool("get_collection_scenarios", "server", "read", FALSE,
         "List scenarios for a collection."),
    Tool("misc_get_version_info", "server", "read", FALSE,
         "Return Xplainable client/server version info."),
    Tool("generate_deploy_key", "server", "write", TRUE,
         "Generate a deploy key for a deployment and return the UUID string."),
    Tool("deploy", "server", "write", TRUE,
         "Deploy a model version."),
    Tool("activate_deployment", "server", "write", TRUE,
         "Activate a deployment."),
    Tool("deactivate_deployment", "server", "write", TRUE,
         "Deactivate a deployment."),
    Tool("gpt_generate_report", "server", "write", TRUE,
         "Generate a GPT report for a model version."),
    Tool("get_deployment_payload", "server", "write", TRUE,
         "Get sample payload data for a deployment.") >>

PackageToolDefs == <<
    Tool("autotrain_generate_labels", "autotrain", "analysis", FALSE,
         "Generate label recommendations for training."),
    Tool("autotrain_start_autotrain", "autotrain", "write", FALSE,
         "Start the autotrain process."),
    Tool("autotrain_summarize_dataset", "autotrain", "analysis", FALSE,
         "Summarize a dataset by uploading a file."),
    Tool("autotrain_generate_feature_engineering", "autotrain", "analysis", FALSE,
         "Generate feature engineering recommendations."),
    Tool("autotrain_generate_goals", "autotrain", "analysis", FALSE,
         "Generate training goals based on dataset summary."),
    Tool("autotrain_check_training_status", "autotrain", "read", FALSE,
         "Check the status of a training job."),
    Tool("autotrain_generate_insights", "autotrain", "analysis", FALSE,
         "Generate insights about the dataset."),
    Tool("autotrain_visualize_data", "autotrain", "analysis", FALSE,
         "Generate data visualizations."),
    Tool("autotrain_train_manual", "autotrain", "write", FALSE,
         "Train a model manually with specific parameters."),
    Tool("collections_get_model_collections", "collections", "read", FALSE,
         "Get all collections for a specific model."),
    Tool("collections_update_collection_name", "collections", "write", FALSE,
         "Update the name of a collection."),
    Tool("collections_create_collection", "collections", "write", FALSE,
         "Create a new collection for a model."),
    Tool("collections_create_scenarios", "collections", "write", FALSE,
         "Create scenarios for a collection."),
    Tool("collections_get_team_collections", "collections", "read", FALSE,
         "Get all collections for the team."),
    Tool("collections_delete_collection", "collections", "write", FALSE,
         "Delete a collection."),
    Tool("collections_get_collection_scenarios", "collections", "read", FALSE,
         "Get all scenarios for a collection."),
    Tool("collections_update_collection_description", "collections", "write", FALSE,
         "Update the description of a collection."),
    Tool("datasets_load_dataset", "datasets", "read", FALSE,
         "Load a public dataset by name."),
    Tool("datasets_list_datasets", "datasets", "read", FALSE,
         "List all available public datasets."),
    Tool("datasets_list_team_datasets", "datasets", "read", FALSE,
         "List all datasets for a team."),
    Tool("deployments_get_deployment_payload", "deployments", "read", FALSE,
         "Get sample payload data for a deployment."),
    Tool("deployments_list_deployments", "deployments", "read", FALSE,
         "List all deployments for a team."),
    Tool("deployments_activate_deployment", "deployments", "write", FALSE,
         "Activate a deployment."),
    Tool("deployments_deploy", "deployments", "write", FALSE,
         "Deploy a model version."),
    Tool("deployments_deactivate_deployment", "deployments", "write", FALSE,
         "Deactivate a deployment."),
    Tool("deployments_generate_deploy_key", "deployments", "write", FALSE,
         "Generate a deploy key for a deployment."),
    Tool("deployments_get_active_team_deploy_keys_count", "deployments", "read", FALSE,
         "Get count of active deploy keys for a team."),
    Tool("gpt_explain_model", "gpt", "analysis", FALSE,
         "Get a natural language explanation of the model."),
    Tool("gpt_generate_documentation", "gpt", "analysis", FALSE,
         "Generate comprehensive documentation for a model."),
    Tool("gpt_generate_report", "gpt", "analysis", FALSE,
         "Generate a GPT-powered report for a model."),
    Tool("inference_predict", "inference", "inference", FALSE,
         "Predicts the target column of a dataset."),
    Tool("inference_stream_predictions", "inference", "inference", FALSE,
         "Stream predictions for large datasets by processing in batches."),
    Tool("misc_load_classifier", "misc", "read", FALSE,
         "Load a binary classification model."),
    Tool("misc_ping_gateway", "misc", "admin", FALSE,
         "Ping the API gateway to check connectivity."),
    Tool("misc_health_check", "misc", "admin", FALSE,
         "Perform a comprehensive health check."),
    Tool("misc_get_model_info", "misc", "read", FALSE,
         "Get information about a model without loading it."),
    Tool("misc_ping_server", "misc", "admin", FALSE,
         "Ping the compute server to check connectivity."),
    Tool("misc_get_version_info", "misc", "read", FALSE,
         "Get comprehensive version information."),
    Tool("misc_load_regressor", "misc", "read", FALSE,
         "Load a regression model."),
    Tool("models_link_preprocessor", "models", "write", FALSE,
         "Link a model version to a preprocessor version."),
    Tool("models_list_model_versions", "models", "read", FALSE,
         "List all versions of a model."),
    Tool("models_get_model", "models", "read", FALSE,
         "Get detailed information about a model."),
    Tool("models_list_model_version_partitions", "models", "read", FALSE,
         "List all partitions for a model version."),
    Tool("models_list_team_models", "models", "read", FALSE,
         "List all models for the current team (based on API key)."),
    Tool("preprocessing_list_preprocessors", "preprocessing", "read", FALSE,
         "List all preprocessors for a team."),
    Tool("preprocessing_get_preprocessor", "preprocessing", "read", FALSE,
         "Get detailed information about a preprocessor.") >>

\* The two FastMCP instances tools are registered on: server.py builds its
\* own, the tools package registers on the shared one of mcp_instance.py.
McpInstances == {"server.mcp", "mcp_instance.mcp"}

\* `if config.enable_write_tools:` around the write tools of server.py.
IsRegisteredOnImport(t, flag) == t.guarded => flag

\* The wrappers `import xplainable_mcp.server` registers on server.mcp.
ServerRegistered(flag) ==
    {ServerToolDefs[i] : i \in {j \in 1..Len(ServerToolDefs) :
                                  IsRegisteredOnImport(ServerToolDefs[j], flag)}}

\* The wrappers `import xplainable_mcp.tools` registers on mcp_instance.mcp:
\* every @mcp.tool() of every service module the aggregator imports.
PackageRegistered(flag) ==
    {PackageToolDefs[i] : i \in {j \in 1..Len(PackageToolDefs) :
                                   IsRegisteredOnImport(PackageToolDefs[j], flag)}}

\* The claim's mutating verbs.
MutatingVerbs ==
    {"activate", "deactivate", "deploy", "generate", "create", "update", "delete"}

\* A write-category wrapper: declared write by the source, its name
\* matching a mutating verb.
IsWriteWrapper(t) ==
    /\ t.category = "write"
    /\ \E v \in MutatingVerbs : Contains(t.name, v)

StartsWith(s, p) == Len(s) >= Len(p) /\ SubSeq(s, 1, Len(p)) = p

\* The subsequence of seq at the positions in S, in order.
RECURSIVE PickFrom(_, _, _)
PickFrom(seq, S, i) ==
    IF i > Len(seq) THEN <<>>
    ELSE (IF i \in S THEN <<seq[i]>> ELSE <<>>) \o PickFrom(seq, S, i + 1)

\* Methods the upstream client classes may expose to inspect.getmembers, in
\* the order of client_modules and, within a class, by name.
UpstreamUniverse == <<
    [module |-> "models", name |-> "get_model"],
    [module |-> "models", name |-> "list_team_models"],
    [module |-> "deployments", name |-> "activate_deployment"],
    [module |-> "deployments", name |-> "deploy"],
    [module |-> "deployments", name |-> "list_deployments"],
    [module |-> "deployments", name |-> "post"],
    [module |-> "preprocessing", name |-> "_request"] >>

HttpVerbs == {"get", "post", "put", "patch", "delete"}

DiscoveryWriteKeywords ==
    {"create", "add", "update", "delete", "deploy", "activate",
     "deactivate", "generate", "revoke"}

UtilityTools == <<
    [name |-> "list_tools", category |-> "discovery"],
    [name |-> "get_connection_info", category |-> "read"],
    [name |-> "misc_get_version_info", category |-> "read"] >>

FallbackTools == <<
    [name |-> "list_tools", category |-> "discovery"],
    [name |-> "get_connection_info", category |-> "read"],
    [name |-> "list_team_models", category |-> "read"],
    [name |-> "get_model", category |-> "read"],
    [name |-> "list_deployments", category |-> "read"],
    [name |-> "misc_get_version_info", category |-> "read"] >>

\* The category _discover_available_tools gives an upstream method.
DiscoveredCategory(name) ==
    IF \E k \in DiscoveryWriteKeywords : Contains(Lower(name), k)
    THEN "write" ELSE "read"

RECURSIVE DiscoverMethods(_)
DiscoverMethods(ms) ==
    IF ms = <<>> THEN <<>>
    ELSE LET n == Head(ms).name IN
         (IF StartsWith(n, "_") \/ Lower(n) \in HttpVerbs
          THEN <<>>
          ELSE <<[name |-> n, category |-> DiscoveredCategory(n)]>>)
         \o DiscoverMethods(Tail(ms))

\* _discover_available_tools(): fails says that the introspection raises
\* (the fallback list is returned); up is the set of positions of
\* UpstreamUniverse the client classes expose.
DiscoverAvailableTools(fails, up) ==
    IF fails THEN FallbackTools
    ELSE UtilityTools \o DiscoverMethods(PickFrom(UpstreamUniverse, up, 1))

CategoryKeys == {"discovery", "read", "write", "admin"}

\* `if category == "write" and not config.enable_write_tools: continue`.
ListedWhen(tool, flag) == ~(tool.category = "write" /\ ~flag)

\* tools_dict of list_tools(): per category, the names of the tools kept.
ToolsDict(available, flag) ==
    [k \in CategoryKeys |->
        SelectSeq(available, LAMBDA t : t.category = k /\ ListedWhen(t, flag))]

\* The result of server.list_tools().
ListToolsResult(available, flag) ==
    LET full == ToolsDict(available, flag)
        kept == {k \in CategoryKeys : full[k] # <<>>}
        td == [k \in kept |-> full[k]]
        count(k) == IF k \in kept THEN Len(td[k]) ELSE 0
        summary == [discovery_tools |-> count("discovery"),
                    read_tools |-> count("read"),
                    write_tools |-> count("write"),
                    admin_tools |-> count("admin"),
                    write_tools_enabled |-> flag]
        total == summary.discovery_tools + summary.read_tools
                   + summary.write_tools + summary.admin_tools
    IN [total_tools |-> total, enabled_tools |-> total,
        categories |-> td, summary |-> summary]

(***************************************************************************)
(* tool_registry.py: ToolRegistry.                                         *)
(***************************************************************************)
RegistryWriteKeywords ==
    {"create", "update", "delete", "deploy", "activate", "deactivate",
     "generate", "train", "start", "stop", "write", "modify", "edit"}

RegistryAdminKeywords == {"admin", "manage", "config", "setting"}

\* ToolRegistry._categorize_tool(name, description).
CategorizeTool(name, description) ==
    LET name_lower == Lower(name)
        desc_lower == Lower(description)
    IN IF Contains(name_lower, "list_tools") \/ Contains(name_lower, "discover")
       THEN "discovery"
       ELSE IF \E k \in RegistryWriteKeywords :
                  Contains(name_lower, k) \/ Contains(desc_lower, k)
       THEN "write"
       ELSE IF \E k \in RegistryAdminKeywords : Contains(name_lower, k)
       THEN "admin"
       ELSE "read"

\* ToolRegistry._is_tool_enabled(name, category).
IsToolEnabled(category, flag) == IF category = "write" THEN flag ELSE TRUE

\* ToolRegistry._extract_tool_info for a wrapper t.
ExtractToolInfo(t, flag) ==
    LET c == CategorizeTool(t.name, t.desc)
    IN [name |-> t.name, category |-> c, enabled |-> IsToolEnabled(c, flag)]

\* ToolRegistry.to_dict() of a registry holding the ToolInfo set ts.
RegistryToDict(ts, flag) ==
    LET by(c) == {t \in ts : t.category = c}
    IN [total_tools |-> Cardinality(ts),
        enabled_tools |-> Cardinality({t \in ts : t.enabled}),
        categories |-> [k \in CategoryKeys |-> by(k)],
        summary |-> [discovery_tools |-> Cardinality(by("discovery")),
                     read_tools |-> Cardinality(by("read")),
                     write_tools |-> Cardinality(by("write")),
                     admin_tools |-> Cardinality(by("admin")),
                     write_tools_enabled |-> flag]]

ToolsInit ==
    /\ enable_write_tools \in BOOLEAN
    /\ imported = {}
    /\ registered = [i \in McpInstances |-> {}]
    /\ registry = [built |-> FALSE, tools |-> {}]
    /\ lastList = <<>>
    /\ lastDict = <<>>

\* `import xplainable_mcp.server`: the module body runs once and registers
\* its wrappers on server.mcp.
ServerImported ==
    [registered EXCEPT !["server.mcp"] = ServerRegistered(enable_write_tools)]

ImportServer ==
    /\ "server" \notin imported
    /\ imported' = imported \cup {"server"}
    /\ registered' = ServerImported
    /\ UNCHANGED <<enable_write_tools, registry, lastList, lastDict>>
    /\ UNCHANGED notTools

\* `import xplainable_mcp.tools`: the aggregator imports every service
\* module; each imports get_client from ..server (which imports server.py)
\* and registers its wrappers on mcp_instance.mcp.
ImportToolsPackage ==
    /\ "tools" \notin imported
    /\ imported' = imported \cup {"server", "tools"}
    /\ registered' = [ServerImported EXCEPT
                        !["mcp_instance.mcp"] = PackageRegistered(enable_write_tools)]
    /\ UNCHANGED <<enable_write_tools, registry, lastList, lastDict>>
    /\ UNCHANGED notTools

\* A call of the list_tools() tool of server.py.
list_tools(fails, up) ==
    /\ "server" \in imported
    /\ lastList' = <<ListToolsResult(DiscoverAvailableTools(fails, up),
                                     enable_write_tools)>>
    /\ UNCHANGED <<enable_write_tools, imported, registered, registry, lastDict>>
    /\ UNCHANGED notTools

ListToolsCall ==
    \E fails \in BOOLEAN, up \in SUBSET (1..Len(UpstreamUniverse)) :
        list_tools(fails, up)

\* get_registry(mcp_instance).to_dict(): the registry is built on first use,
\* from the tools of the given FastMCP instance or, with src = "module", from
\* the wrappers defined in the server module (which this imports).
RegistrySources == McpInstances \cup {"module"}

list_all_tools(src) ==
    LET reg == IF src = "module" THEN ServerImported ELSE registered
        found == IF src = "module" THEN reg["server.mcp"] ELSE reg[src]
        tools == {ExtractToolInfo(t, enable_write_tools) : t \in found}
        r == IF registry.built THEN registry
             ELSE [built |-> TRUE, tools |-> tools]
    IN /\ registry' = r
       /\ registered' = IF registry.built THEN registered ELSE reg
       /\ imported' = IF registry.built \/ src # "module" THEN imported
                      ELSE imported \cup {"server"}
       /\ lastDict' = <<RegistryToDict(r.tools, enable_write_tools)>>
       /\ UNCHANGED <<enable_write_tools, lastList>>
       /\ UNCHANGED notTools

ListAllToolsCall == \E src \in RegistrySources : list_all_tools(src)

(***************************************************************************)
(* Configuration: load_config of server.py.                                *)
(***************************************************************************)
\* load_config() in an environment: sys.exit(1) after an error line, or
\* the ServerConfig returned.
LoadConfig(api_key, host, write) ==
    IF ~HasApiKey(api_key)
    THEN [outcome |-> "exit", status |-> 1, config |-> <<>>,
          logs |-> <<"XPLAINABLE_API_KEY environment variable not set">>]
    ELSE [outcome |-> "returned", status |-> 0,
          config |-> <<[api_key |-> api_key[1],
                        hostname |-> GetEnv(host, "https://platform.xplainable.io"),
                        enable_write_tools |-> Lower(GetEnv(write, "false")) = "true"]>>,
          logs |-> <<>>]

ConfigInit ==
    /\ api_key_env \in EnvValues({"", "test-api-key"})
    /\ lastLoad = <<>>

\* A call of load_config().
load_config(host, write) ==
    /\ lastLoad' = <<[api_key |-> api_key_env, host |-> host, write |-> write,
                      result |-> LoadConfig(api_key_env, host, write)]>>
    /\ UNCHANGED <<clientVars, toolsVars, wrapVars, mergeVars, reportVars,
                   discoveries, api_key_env, concVars>>

LoadConfigCall ==
    \E host \in EnvValues({"https://test.xplainable.io"}),
       write \in EnvValues({"true", "True", "false", "1"}) :
        load_config(host, write)

(***************************************************************************)
(* Tool wrappers: values, exceptions and the response handlers.            *)
(***************************************************************************)
\* Values an upstream method returns: None, a pydantic model (it has
\* model_dump), a plain value without model_dump (an int, a str), and lists.
Val(k, i, xs) == [kind |-> k, id |-> i, items |-> xs]

NoneV == Val("none", 0, <<>>)

Model(i) == Val("model", i, <<>>)

Plain(i) == Val("plain", i, <<>>)

ListOf(xs) == Val("list", 0, xs)

\* item.model_dump(): the plain structure of model i.
Dump(v) == Val("dict", v.id, <<>>)

\* hasattr(v, 'model_dump')
HasDump(v) == v.kind = "model"

Exc(t, m) == [type |-> t, msg |-> m]

NoExc == Exc("", "")

NoneIterMsg == "'NoneType' object is not iterable"

\* `except Exception` catches every exception but the BaseException-only
\* ones (SystemExit, KeyboardInterrupt).
IsException(e) == e.type \notin {"SystemExit", "KeyboardInterrupt"}

Returns(v) == [kind |-> "return", val |-> v, exc |-> NoExc]

Raises(e) == [kind |-> "raise", val |-> NoneV, exc |-> e]

Line(lvl, by) == [level |-> lvl, by |-> by]

\* What one run of a function body yields: its outcome, the log lines it
\* wrote and the upstream invocations it made.
Ran(out, logs, calls) == [out |-> out, logs |-> logs, calls |-> calls]

\* `except TypeError as e: if "'NoneType' object is not iterable" in str(e)`
\* of safe_client_call.
IsNoneIteration(e) == e.type = "TypeError" /\ Contains(e.msg, NoneIterMsg)

\* safe_client_call(client_func, tool_name, *args, **kwargs): up is what the
\* one invocation of client_func does.  The first definition is the faulty
\* variant that answers every TypeError with None.
safe_client_call_any_type_error(up, tool, call) ==
    IF up.kind = "raise" /\ up.exc.type = "TypeError"
    THEN Ran(Returns(NoneV), <<Line("warning", "safe_client_call")>>, <<call>>)
    ELSE Ran(up, <<>>, <<call>>)
safe_client_call(up, tool, call) ==
    IF up.kind = "raise" /\ IsNoneIteration(up.exc)
    THEN Ran(Returns(NoneV), <<Line("warning", "safe_client_call")>>, <<call>>)
    ELSE Ran(up, <<>>, <<call>>)

\* The wrapper that the decorator handle_none_as_empty_list puts around
\* func: up is what the one invocation of func does.
handle_none_as_empty_list(up, call) ==
    IF up.kind = "return" /\ up.val.kind = "none"
    THEN Ran(Returns(ListOf(<<>>)), <<Line("warning", "handle_none_as_empty_list")>>,
             <<call>>)
    ELSE IF up.kind = "raise" /\ IsNoneIteration(up.exc)
    THEN Ran(Returns(ListOf(<<>>)), <<Line("warning", "handle_none_as_empty_list")>>,
             <<call>>)
    ELSE Ran(up, <<>>, <<call>>)

RECURSIVE DumpAll(_)
DumpAll(xs) ==
    IF xs = <<>> THEN <<>> ELSE <<Dump(Head(xs))>> \o DumpAll(Tail(xs))

\* `dict(item) if hasattr(item, '__dict__') else item`: a model has a
\* __dict__ and dict(model) is its field dictionary; a plain value has none.
RECURSIVE DictAll(_)
DictAll(xs) ==
    IF xs = <<>> THEN <<>>
    ELSE <<IF HasDump(Head(xs)) THEN Dump(Head(xs)) ELSE Head(xs)>>
         \o DictAll(Tail(xs))

AllHaveDump(xs) == \A k \in 1..Len(xs) : HasDump(xs[k])

\* safe_model_dump_list(items, tool_name); items is None, a list or a
\* value that cannot be iterated.  The first definition is the faulty
\* variant that dumps the first item only.
safe_model_dump_list_first_item(items) ==
    IF items.kind = "list" /\ items.items # <<>>
    THEN Ran(Returns(ListOf(<<Dump(items.items[1])>>)), <<>>, <<>>)
    ELSE Ran(Returns(ListOf(<<>>)), <<>>, <<>>)
safe_model_dump_list(items) ==
    IF items.kind = "none"
    THEN Ran(Returns(ListOf(<<>>)), <<Line("warning", "safe_model_dump_list")>>, <<>>)
    ELSE IF items.kind = "list"
    THEN IF AllHaveDump(items.items)
         THEN Ran(Returns(ListOf(DumpAll(items.items))), <<>>, <<>>)
         ELSE Ran(Returns(ListOf(DictAll(items.items))),
                  <<Line("error", "safe_model_dump_list")>>, <<>>)
    ELSE Ran(Raises(Exc("TypeError", "object is not iterable")),
             <<Line("error", "safe_model_dump_list")>>, <<>>)

\* safe_model_dump(item, tool_name)
safe_model_dump(item) ==
    IF item.kind = "none"
    THEN Ran(Returns(NoneV), <<Line("warning", "safe_model_dump")>>, <<>>)
    ELSE IF HasDump(item)
    THEN Ran(Returns(Dump(item)), <<>>, <<>>)
    ELSE Ran(Returns(item), <<Line("error", "safe_model_dump")>>, <<>>)

\* The `except Exception as e: logger.error(...); raise` of every wrapper,
\* applied to what the try body did.  The first definition is the faulty
\* variant that raises a translated exception.
ExceptAndReraiseWrapped(tool, r) ==
    IF r.out.kind = "raise" /\ IsException(r.out.exc)
    THEN Ran(Raises(Exc("RuntimeError", r.out.exc.msg)),
             r.logs \o <<Line("error", tool)>>, r.calls)
    ELSE r

ExceptAndReraise(tool, r) ==
    IF r.out.kind = "raise" /\ IsException(r.out.exc)
    THEN Ran(r.out, r.logs \o <<Line("error", tool)>>, r.calls)
    ELSE r

\* An upstream invocation: the method and the keyword argument it is given.
Call(method, kw, v) == [method |-> method, kw |-> kw, val |-> v]

\* The body of a wrapper generated from the template of
\* generate_tool_implementation, after get_client() returned.
GeneratedBody(tool, up) ==
    LET call == Call(tool, "", "")
        result == up.val
        info == <<Line("info", tool)>>
    IN IF up.kind = "raise" THEN Ran(up, <<>>, <<call>>)
       ELSE IF HasDump(result)
       THEN Ran(Returns(Dump(result)), info, <<call>>)
       ELSE IF result.kind = "list" /\ result.items # <<>> /\ HasDump(result.items[1])
       THEN IF AllHaveDump(result.items)
            THEN Ran(Returns(ListOf(DumpAll(result.items))), info, <<call>>)
            ELSE Ran(Raises(Exc("AttributeError", "no attribute 'model_dump'")),
                     info, <<call>>)
       ELSE Ran(Returns(result), info, <<call>>)

\* server.list_team_models(team_id_override), after get_client() returned.
ListTeamModelsBody(override, up) ==
    LET call == IF override # "" THEN Call("list_team_models", "team_id_override", override)
                ELSE Call("list_team_models", "", "")
        c == safe_client_call(up, "list_team_models", call)
        d == safe_model_dump_list(c.out.val)
    IN IF c.out.kind = "raise" THEN c
       ELSE IF d.out.kind = "raise" THEN Ran(d.out, c.logs \o d.logs, c.calls)
       ELSE Ran(d.out, c.logs \o d.logs \o <<Line("info", "list_team_models")>>, c.calls)

\* server.list_deployments(team_id_override), after get_client() returned.
ListDeploymentsBody(override, up) ==
    LET call == IF override # "" THEN Call("list_deployments", "team_id", override)
                ELSE Call("list_deployments", "", "")
        d == safe_model_dump_list(up.val)
    IN IF up.kind = "raise" THEN Ran(up, <<>>, <<call>>)
       ELSE IF d.out.kind = "raise" THEN Ran(d.out, d.logs, <<call>>)
       ELSE Ran(d.out, d.logs \o <<Line("info", "list_deployments")>>, <<call>>)

\* server.get_model(model_id), after get_client() returned.
GetModelBody(up) ==
    LET call == Call("get_model", "", "model_id")
        d == safe_model_dump(up.val)
    IN IF up.kind = "raise" THEN Ran(up, <<>>, <<call>>)
       ELSE IF d.out.val.kind = "none"
       THEN Ran(Raises(Exc("ValueError", "Model not found")), d.logs, <<call>>)
       ELSE Ran(d.out, d.logs \o <<Line("info", "get_model")>>, <<call>>)

(***************************************************************************)
(* Invocation of a tool wrapper.                                           *)
(***************************************************************************)
\* The wrappers modelled: three of server.py and two of the generated
\* ones of tools/deployments.py (all generated wrappers share one body).
WrappedTools ==
    {"list_team_models", "list_deployments", "get_model",
     "deployments_get_deployment_payload", "deployments_list_deployments"}

\* The wrappers whose declared or documented result is a list.
ExpectsCollection(tool) ==
    tool \in {"list_team_models", "list_deployments", "deployments_list_deployments"}

TeamIds == {"", "team-1"}

UpExceptions ==
    {Exc("TypeError", NoneIterMsg),
     Exc("TypeError", "unsupported operand type(s)"),
     Exc("Exception", "API Error"),
     Exc("KeyboardInterrupt", "")}

\* What the upstream method of a wrapper may return.
UpValues(tool) ==
    CASE tool \in {"list_team_models", "list_deployments"} ->
            {NoneV, Plain(1), ListOf(<<>>), ListOf(<<Model(1)>>),
             ListOf(<<Model(1), Model(2)>>), ListOf(<<Model(1), Plain(1)>>)}
      [] tool = "get_model" -> {NoneV, Model(1), Plain(1)}
      [] OTHER ->
            {NoneV, Model(1), Plain(1), ListOf(<<>>), ListOf(<<Model(1), Model(2)>>),
             ListOf(<<Model(1), Plain(1)>>), ListOf(<<Plain(1), Model(1)>>)}

UpOutcomes(tool) ==
    {Returns(v) : v \in UpValues(tool)} \cup {Raises(e) : e \in UpExceptions}

\* The try body of a wrapper after `client = get_client()`.
Body(tool, override, up) ==
    CASE tool = "list_team_models" -> ListTeamModelsBody(override, up)
      [] tool = "list_deployments" -> ListDeploymentsBody(override, up)
      [] tool = "get_model" -> GetModelBody(up)
      [] OTHER -> GeneratedBody(tool, up)

WrapperInit ==
    /\ invocations = 0
    /\ lastInv = <<>>
    /\ lastGuarded = <<>>
    /\ lastInfo = <<>>

\* One invocation of a wrapper: get_client() of server.py, then the body,
\* all inside `try: ... except Exception as e: logger.error(...); raise`.
InvokeTool(tool, override, env, up) ==
    /\ invocations < MaxInvocations
    /\ getCalls < MaxGetCalls
    /\ invocations' = invocations + 1
    /\ GetClientEffect("server", env)
    /\ lastInv' =
         <<[tool |-> tool, override |-> override, up |-> up, got |-> lastGet',
            run |-> ExceptAndReraise(tool,
                      IF lastGet'.outcome # "ok"
                      THEN Ran(Raises(Exc(lastGet'.outcome, "1")), <<>>, <<>>)
                      ELSE Body(tool, override, up))]>>
    /\ UNCHANGED <<lastGuarded, lastInfo>>
    /\ UNCHANGED notClientNorWrapper

InvokeCall ==
    \E tool \in WrappedTools, override \in TeamIds, env \in BuildOutcomes :
        \E up \in UpOutcomes(tool) : InvokeTool(tool, override, env, up)

\* The keys get_connection_info copies from client.connection_info.  The
\* first definition is the faulty variant that copies the API key too.
SafeInfoKeysAndApiKey ==
    {"hostname", "username", "api_key_expires", "xplainable_version",
     "python_version", "org_id", "team_id", "api_key"}
SafeInfoKeys ==
    {"hostname", "username", "api_key_expires", "xplainable_version",
     "python_version", "org_id", "team_id"}

\* The keys a connection_info dictionary may hold.
InfoKeys == SafeInfoKeys \cup {"api_key"}

\* The dictionaries client.connection_info may be: key -> <<value>>, or
\* <<>> for a key that is absent or None (info.get(key) is None for both).
ConnectionInfos ==
    {i \in [InfoKeys -> {<<>>, <<"a">>, <<"b">>}] :
        /\ \A k \in InfoKeys \ {"team_id", "api_key"} : i[k] = <<"a">>
        /\ i["team_id"] # <<"b">>}

\* safe_info of get_connection_info
SafeInfo(info) == [k \in SafeInfoKeys |-> info[k]]

\* One call of get_connection_info(): get_client() of server.py, then the
\* property connection_info, which returns info or raises, all inside
\* `try: ... except Exception as e: logger.error(...); raise`.
get_connection_info(env, info, raises) ==
    /\ invocations < MaxInvocations
    /\ getCalls < MaxGetCalls
    /\ invocations' = invocations + 1
    /\ GetClientEffect("server", env)
    /\ lastInfo' =
         <<[info |-> info, got |-> lastGet',
            result |-> IF lastGet'.outcome = "ok" /\ ~raises
                       THEN <<SafeInfo(info)>> ELSE <<>>,
            logs |-> IF lastGet'.outcome = "ok"
                     THEN IF raises THEN <<Line("error", "get_connection_info")>>
                          ELSE <<Line("info", "get_connection_info")>>
                     ELSE IF IsException(Exc(lastGet'.outcome, "1"))
                     THEN <<Line("error", "get_connection_info")>> ELSE <<>>]>>
    /\ UNCHANGED <<lastInv, lastGuarded>>
    /\ UNCHANGED notClientNorWrapper

GetConnectionInfoCall ==
    \E env \in BuildOutcomes, info \in ConnectionInfos, raises \in BOOLEAN :
        get_connection_info(env, info, raises)

\* The two guards of response_handlers.py around a call of a method that
\* returns a list.
Guards == {"safe_client_call", "handle_none_as_empty_list"}

\* One guarded call of an upstream method, outside any wrapper.
guarded_call(guard, up) ==
    /\ invocations < MaxInvocations
    /\ invocations' = invocations + 1
    /\ lastGuarded' =
         <<[guard |-> guard, up |-> up,
            run |-> IF guard = "safe_client_call"
                    THEN safe_client_call(up, "list_team_models",
                                          Call("list_team_models", "", ""))
                    ELSE handle_none_as_empty_list(up, Call("list_team_models", "", ""))]>>
    /\ UNCHANGED <<lastInv, lastInfo>>
    /\ UNCHANGED <<clientVars, notClientNorWrapper>>

GuardedCall ==
    \E guard \in Guards, up \in UpOutcomes("list_team_models") : guarded_call(guard, up)

(***************************************************************************)
(* Service files (tool_manager.py): helpers on lines of text.              *)
(***************************************************************************)
\* The number of blanks of line from position i on, up to the first
\* character that is none.
RECURSIVE BlanksFrom(_, _)
BlanksFrom(line, i) ==
    IF i > Len(line) \/ SubSeq(line, i, i) # " " THEN 0
    ELSE 1 + BlanksFrom(line, i + 1)

\* The number of blanks of line from position i back.
RECURSIVE BlanksBack(_, _)
BlanksBack(line, i) ==
    IF i < 1 \/ SubSeq(line, i, i) # " " THEN 0
    ELSE 1 + BlanksBack(line, i - 1)

\* len(line) - len(line.lstrip())
Indent(line) == BlanksFrom(line, 1)

\* `not line.strip()`: the line holds nothing but blanks.
IsBlank(line) == Indent(line) = Len(line)

LStrip(line) == SubSeq(line, Indent(line) + 1, Len(line))

\* line.strip()
Strip(line) ==
    IF IsBlank(line) THEN ""
    ELSE SubSeq(line, Indent(line) + 1, Len(line) - BlanksBack(line, Len(line)))

\* f"def {tool_name}(" in line
IsDefOf(line, name) == Contains(line, "def " \o name \o "(")

\* line.strip() == "@mcp.tool()"
IsDecorator(line) == Strip(line) = "@mcp.tool()"

\* a + b on texts: the last line of a and the first line of b join.  The
\* first definition is the faulty variant that starts b on a line of its own.
ConcatTextOnNewLine(a, b) == a \o b
ConcatText(a, b) ==
    SubSeq(a, 1, Len(a) - 1) \o <<a[Len(a)] \o b[1]>> \o Tail(b)

\* The length of the word of line that starts at position i.
RECURSIVE WordFrom(_, _)
WordFrom(line, i) ==
    IF i > Len(line) \/ SubSeq(line, i, i) = " " THEN 0
    ELSE 1 + WordFrom(line, i + 1)

\* line.split() from position i on: the whitespace-separated words.
RECURSIVE SplitFrom(_, _)
SplitFrom(line, i) ==
    LET b == i + BlanksFrom(line, i)
        n == WordFrom(line, b)
    IN IF n = 0 THEN <<>>
       ELSE <<SubSeq(line, b, b + n - 1)>> \o SplitFrom(line, b + n)

Split(line) == SplitFrom(line, 1)

\* text.split() of a text: the words of its lines, in order.  The values
\* ' '.join(text.split()) of two texts are equal exactly when these are.
RECURSIVE SplitText(_)
SplitText(lines) ==
    IF Len(lines) = 0 THEN <<>>
    ELSE IF Len(lines) = 1 THEN Split(lines[1])
    ELSE LET h == Len(lines) \div 2
         IN SplitText(SubSeq(lines, 1, h)) \o SplitText(SubSeq(lines, h + 1, Len(lines)))

\* The prefixes that do not end a function when met at its indentation.
ExtractSkips == {"@", "\"\"\"", "'''"}

ReplaceSkips == ExtractSkips \cup {"#"}

\* A non-empty line at the function's indentation or less that starts with
\* none of the prefixes: the function has ended.
EndsFunction(line, indent, prefixes) ==
    /\ ~IsBlank(line)
    /\ Indent(line) <= indent
    /\ \A p \in prefixes : ~StartsWith(LStrip(line), p)

\* The first index from k on whose line ends the function (Len + 1 if none).
RECURSIVE FunctionEnd(_, _, _)
FunctionEnd(lines, k, indent) ==
    IF k > Len(lines) \/ EndsFunction(lines[k], indent, ReplaceSkips) THEN k
    ELSE FunctionEnd(lines, k + 1, indent)

\* The first index from k on whose line is not blank (Len + 1 if none).
RECURSIVE FirstNonBlank(_, _)
FirstNonBlank(lines, k) ==
    IF k > Len(lines) \/ ~IsBlank(lines[k]) THEN k
    ELSE FirstNonBlank(lines, k + 1)

\* The least index of lines in S, Len + 1 if S is empty.
FirstIn(lines, S) ==
    IF S = {} THEN Len(lines) + 1 ELSE CHOOSE k \in S : \A h \in S : k <= h

\* The loop of ToolFileManager._extract_tool_from_content from a def line
\* at index i on: the lines up to the one that ends the function; a further
\* def line of the tool is taken too and sets the indentation anew.
RECURSIVE ExtractFrom(_, _, _)
ExtractFrom(lines, name, i) ==
    LET e == FirstIn(lines, {k \in (i + 1)..Len(lines) :
                   \/ IsDefOf(lines[k], name)
                   \/ EndsFunction(lines[k], Indent(lines[i]), ExtractSkips)})
    IN SubSeq(lines, i, e - 1) \o
       (IF e <= Len(lines) /\ IsDefOf(lines[e], name)
        THEN ExtractFrom(lines, name, e) ELSE <<>>)

\* ToolFileManager._extract_tool_from_content, as the list tool_lines.
ExtractToolFromContent(content, name) ==
    LET i == FirstIn(content, {k \in 1..Len(content) : IsDefOf(content[k], name)})
    IN IF i > Len(content) THEN <<>> ELSE ExtractFrom(content, name, i)

\* ToolFileManager._tool_content_unchanged
ToolContentUnchanged(content, code, name) ==
    LET existing == ExtractToolFromContent(content, name)
    IN existing # <<>> /\ SplitText(existing) = SplitText(code)

\* `if not tool_replaced: new_lines.append(new_tool_code)`: the new code goes
\* in at the first occurrence only.  The first definition is the faulty
\* variant that puts it in at every occurrence.
InsertsNewCodeAlways(replaced) == TRUE

InsertsNewCode(replaced) == ~replaced

\* The lookahead of the decorator branch: the first of the next four lines
\* that defines the tool, 0 if none does.
LookAhead(lines, i, name) ==
    LET js == {j \in (i + 1)..(i + 4) : j <= Len(lines) /\ IsDefOf(lines[j], name)}
    IN IF js = {} THEN 0 ELSE CHOOSE j \in js : \A h \in js : j <= h

\* The next index from i on where the loop meets the tool: a decorator
\* whose lookahead finds it, or a def line of it (Len + 1 if none).
NextOccurrence(lines, name, i) ==
    FirstIn(lines, {k \in i..Len(lines) :
                \/ IsDecorator(lines[k]) /\ LookAhead(lines, k, name) # 0
                \/ IsDefOf(lines[k], name)})

\* The while loop of ToolFileManager._replace_tool_in_content from index i,
\* with new_lines = acc and the flags tool_replaced and skip_empty_lines.
\* While skip_empty_lines is off, every line before the next occurrence
\* of the tool is appended as it is, so these are taken in one step.
RECURSIVE ReplaceFrom(_, _, _, _, _, _, _)
ReplaceFrom(lines, code, name, i, acc, replaced, skip) ==
    IF i > Len(lines)
    THEN IF replaced THEN acc ELSE acc \o code
    ELSE IF ~skip /\ ~IsDecorator(lines[i]) /\ ~IsDefOf(lines[i], name)
    THEN LET n == NextOccurrence(lines, name, i + 1)
         IN ReplaceFrom(lines, code, name, n, acc \o SubSeq(lines, i, n - 1),
                        replaced, FALSE)
    ELSE IF IsDecorator(lines[i])
    THEN LET j == LookAhead(lines, i, name)
         IN IF j = 0
            THEN ReplaceFrom(lines, code, name, i + 1, Append(acc, lines[i]),
                             replaced, skip)
            ELSE ReplaceFrom(lines, code, name,
                             FunctionEnd(lines, j + 1, Indent(lines[j])),
                             IF InsertsNewCode(replaced) THEN acc \o code ELSE acc,
                             TRUE, TRUE)
    ELSE IF IsDefOf(lines[i], name)
    THEN ReplaceFrom(lines, code, name,
                     FunctionEnd(lines, i + 1, Indent(lines[i])),
                     IF InsertsNewCode(replaced) THEN acc \o code ELSE acc,
                     TRUE, TRUE)
    ELSE IF skip /\ IsBlank(lines[i])
    THEN LET temp_i == FirstNonBlank(lines, i)
             empty_count == temp_i - i
         IN IF empty_count > 2
            THEN ReplaceFrom(lines, code, name, i + empty_count - 2, acc,
                             replaced, temp_i > Len(lines))
            ELSE ReplaceFrom(lines, code, name, i + 1, Append(acc, lines[i]),
                             replaced, temp_i > Len(lines))
    ELSE ReplaceFrom(lines, code, name, i + 1, Append(acc, lines[i]),
                     replaced, skip /\ IsBlank(lines[i]))

\* ToolFileManager._replace_tool_in_content
ReplaceToolInContent(content, code, name) ==
    ReplaceFrom(content, code, name, 1, <<>>, FALSE, FALSE)

(***************************************************************************)
(* Rendering of a wrapper and the merge into a service file.               *)
(***************************************************************************)
\* The one service of the model and its upstream methods.
Service == "models"

ServiceTitle == "Models"

Methods == <<"get_model", "list_team_models">>

\* The docstring of a method in the two upstream library versions.
LibraryVersions == {1, 2}

DocOf(method, v) ==
    IF v = 1 THEN <<"Execute " \o method>>
    ELSE <<"Execute " \o method, "Changed upstream.">>

\* method_info of a decorated upstream method (no parameters but self).
MethodInfo(method, v) ==
    [mcp_name |-> Service \o "_" \o method, module |-> Service,
     method |-> method, params |-> "", args |-> "",
     doc |-> DocOf(method, v), category |-> "read"]

\* '\n    '.join(docstring_lines) behind the template's four blanks.
RECURSIVE IndentAll(_)
IndentAll(doc) ==
    IF doc = <<>> THEN <<>> ELSE <<"    " \o Head(doc)>> \o IndentAll(Tail(doc))

\* generate_tool_implementation: the template, as the lines of its text.
Render(info) ==
    <<"",
      "@mcp.tool()",
      "def " \o info.mcp_name \o "(" \o info.params \o "):",
      "    \"\"\"">>
    \o IndentAll(info.doc) \o
    <<"    ",
      "    Category: " \o info.category,
      "    \"\"\"",
      "    try:",
      "        client = get_client()",
      "        result = client." \o info.module \o "." \o info.method
          \o "(" \o info.args \o ")",
      "        logger.info(f\"Executed " \o info.module \o "." \o info.method \o "\")",
      "        ",
      "        # Handle different return types",
      "        if hasattr(result, 'model_dump'):",
      "            return result.model_dump()",
      "        elif isinstance(result, list) and result and hasattr(result[0], 'model_dump'):",
      "            return [item.model_dump() for item in result]",
      "        else:",
      "            return result",
      "    except Exception as e:",
      "        logger.error(f\"Error in " \o info.mcp_name \o ": {e}\")",
      "        raise",
      "">>

\* create_service_file: the boilerplate of a new service file.
Boilerplate ==
    <<"\"\"\"",
      ServiceTitle \o " service MCP tools.",
      "",
      "Auto-generated and maintained by the xplainable-client sync workflow.",
      "\"\"\"",
      "",
      "import logging",
      "from typing import Optional, List, Dict, Any",
      "from ..mcp_instance import mcp",
      "",
      "logger = logging.getLogger(__name__)",
      "",
      "# Import shared utilities",
      "from ..server import get_client",
      "",
      "",
      "# " \o ServiceTitle \o " Tools",
      "# ============================================",
      "",
      "">>

\* A file that does not exist; a text has at least one line.
NoFile == <<>>

Defines(content, name) == \E i \in 1..Len(content) : IsDefOf(content[i], name)

\* ToolFileManager.add_tool_to_service on the service file `file`: the
\* value returned and the content the file has afterwards.
AddToolToService(file, code, name, force) ==
    LET current == IF file = NoFile THEN Boilerplate ELSE file
    IN IF Defines(current, name)
       THEN IF ~force /\ ToolContentUnchanged(current, code, name)
            THEN [result |-> "skipped", content |-> current]
            ELSE [result |-> "updated",
                  content |-> ReplaceToolInContent(current, code, name)]
       ELSE [result |-> "added",
             content |-> ConcatText(ConcatText(current, code), <<"", "">>)]

\* How the body of the loop of sync_all_tools may end for one tool: with
\* no exception, with an Exception raised by generate_code_fn, or with one
\* raised by add_tool_to_service once the service file exists.
Failures == {"none", "render", "merge"}

\* What one pass of the loop body did: generate_code_fn, then
\* add_tool_to_service.  A pass that raised has the result "failed".
Step(info, file, force, fail) ==
    LET r == AddToolToService(file, Render(info), info.mcp_name, force)
    IN [name |-> info.mcp_name, code |-> Render(info), before |-> file,
        result |-> IF fail = "none" THEN r.result ELSE "failed",
        after |-> CASE fail = "none" -> r.content
                    [] fail = "render" -> file
                    [] fail = "merge" -> IF file = NoFile THEN Boilerplate ELSE file]

\* The except clause of sync_all_tools is inside the loop: the loop goes on
\* after a pass that raised.  The first definition is the faulty variant
\* whose loop ends at the first pass that raised.
ContinuesUnlessFailed(s) == s.result # "failed"
Continues(s) == TRUE

\* The loop of sync_all_tools over the tools of the service, from file.
RECURSIVE SyncSteps(_, _, _, _)
SyncSteps(tools, file, force, fails) ==
    IF tools = <<>> THEN <<>>
    ELSE LET s == Step(Head(tools), file, force, Head(fails))
         IN IF Continues(s)
            THEN <<s>> \o SyncSteps(Tail(tools), s.after, force, Tail(fails))
            ELSE <<s>>

Count(steps, result) == Cardinality({k \in 1..Len(steps) : steps[k].result = result})

Results(steps) ==
    [added |-> Count(steps, "added"), updated |-> Count(steps, "updated"),
     skipped |-> Count(steps, "skipped")]

\* The stems a *.py file of the tools directory may have, as sorted()
\* orders them.
ServiceFileOrder == <<"deployments", Service, "preprocessing">>

OtherFiles == {ServiceFileOrder[k] : k \in 1..Len(ServiceFileOrder)} \ {Service}

\* The *.py files of the tools directory other than __init__.py.
ServiceFiles(file, others) == others \cup (IF file = NoFile THEN {} ELSE {Service})

\* sorted(service_files)
RECURSIVE SortedFrom(_, _)
SortedFrom(files, k) ==
    IF k > Len(ServiceFileOrder) THEN <<>>
    ELSE (IF ServiceFileOrder[k] \in files THEN <<ServiceFileOrder[k]>> ELSE <<>>)
         \o SortedFrom(files, k + 1)

\* update_tools_init: the services imported by tools/__init__.py, in the
\* order of its import lines.  The first definition is the faulty variant
\* that adds the import lines to those the file has.
UpdateToolsInitAppending(files, init) ==
    IF files = {} THEN init ELSE init \o SortedFrom(files, 1)
UpdateToolsInit(files, init) ==
    IF files = {} THEN init ELSE SortedFrom(files, 1)

\* What a run of sync_all_tools does to the tools directory and the history.
SyncEffect(tools, force, fails) ==
    /\ lastSteps' = SyncSteps(tools, serviceFile, force, fails)
    /\ serviceFile' = IF lastSteps' = <<>> THEN serviceFile
                      ELSE lastSteps'[Len(lastSteps')].after
    /\ initFile' = UpdateToolsInit(ServiceFiles(serviceFile', dirFiles), initFile)
    /\ runs' = (IF runs = <<>> THEN <<>> ELSE <<runs[Len(runs)]>>) \o
               <<[tools |-> tools, force |-> force, fails |-> fails,
                  results |-> Results(lastSteps'),
                  before |-> serviceFile, after |-> serviceFile']>>
    /\ UNCHANGED dirFiles

\* No pass of the loop raises.
NoFailures(tools) == [k \in 1..Len(tools) |-> "none"]

\* The tools_data a sync is given: the methods of the service in their
\* order of discovery, all described by the same library version.
ToolsData ==
    { [k \in 1..Len(Methods) |-> MethodInfo(Methods[k], v)] : v \in LibraryVersions }

MergeInit ==
    /\ serviceFile = NoFile
    /\ initFile = <<>>
    /\ lastSteps = <<>>
    /\ runs = <<>>
    /\ mergeOps = 0
    /\ dirFiles = {}
    /\ failRuns = 0

\* A single call of add_tool_to_service.
add_tool_to_service(info, force) ==
    /\ mergeOps < MaxMergeOps
    /\ mergeOps' = mergeOps + 1
    /\ lastSteps' = <<Step(info, serviceFile, force, "none")>>
    /\ serviceFile' = lastSteps'[1].after
    /\ runs' = <<>>
    /\ UNCHANGED <<initFile, dirFiles, failRuns>>
    /\ UNCHANGED notMerge

AddToolCall ==
    \E m \in 1..Len(Methods), v \in LibraryVersions, force \in BOOLEAN :
        add_tool_to_service(MethodInfo(Methods[m], v), force)

\* A call of sync_all_tools; runs keeps the last two consecutive calls.
sync_all_tools(tools, force) ==
    /\ mergeOps < MaxMergeOps
    /\ mergeOps' = mergeOps + 1
    /\ SyncEffect(tools, force, NoFailures(tools))
    /\ UNCHANGED failRuns
    /\ UNCHANGED notMerge

SyncAllToolsCall ==
    \E tools \in ToolsData, force \in BOOLEAN : sync_all_tools(tools, force)

\* Somebody pastes a second definition of a tool the file already has.
DuplicateDefinition(info) ==
    /\ mergeOps < MaxMergeOps
    /\ serviceFile # NoFile
    /\ Defines(serviceFile, info.mcp_name)
    /\ mergeOps' = mergeOps + 1
    /\ serviceFile' = ConcatText(ConcatText(serviceFile, Render(info)), <<"", "">>)
    /\ runs' = <<>>
    /\ UNCHANGED <<initFile, lastSteps, dirFiles, failRuns>>
    /\ UNCHANGED notMerge

DuplicateCall ==
    \E m \in 1..Len(Methods) : DuplicateDefinition(MethodInfo(Methods[m], 1))

\* A tools directory as a run may find it: other service files present or
\* not, and an aggregator that imports them or is not written yet.
DirInit ==
    /\ serviceFile = NoFile
    /\ dirFiles \in SUBSET OtherFiles
    /\ initFile \in {<<>>, SortedFrom(dirFiles, 1)}
    /\ lastSteps = <<>>
    /\ runs = <<>>
    /\ mergeOps = 0
    /\ failRuns = 0

\* A call of sync_all_tools, with the default force_update, in which
\* passes of the loop may raise.
sync_all_tools_raising(tools, fails) ==
    /\ failRuns < MaxFailRuns
    /\ failRuns' = failRuns + 1
    /\ SyncEffect(tools, FALSE, fails)
    /\ UNCHANGED mergeOps
    /\ UNCHANGED notMerge

SyncRaisingCall ==
    \E tools \in ToolsData :
        \E fails \in [1..Len(tools) -> Failures] :
            sync_all_tools_raising(tools, fails)

(***************************************************************************)
(* The sync report (sync_workflow.py) and SyncValidator (sync_utils.py).   *)
(***************************************************************************)
\* The decorated upstream methods a scan may find, by index in Methods, and
\* the names the server module may define.
ExpectedUniverse == 1..Len(Methods)

ActualUniverse == {"models_get_model", "list_tools"}

\* method_info['mcp_name'] = f"{module_name}_{method_name}"
McpName(k) == Service \o "_" \o Methods[k]

\* decorated_methods of a scan: sorted by (module, method).
DecoratedMethods(E) ==
    LET n == Cardinality(E)
    IN [i \in 1..n |->
          MethodInfo(Methods[CHOOSE k \in E : Cardinality({h \in E : h <= k}) = i], 1)]

\* A percentage as the fraction num / den.
Fraction(n, d) == [num |-> n, den |-> d]

\* `... if mcp_set else 100` of generate_sync_report.
CoverageOfNoneExpected == 100

\* `... if potential_set else 0` of validate_tools.
ValidatorCoverageOfNoneExpected == 0

\* len(implemented) / len(expected) * 100, or the given value when nothing
\* is expected.
Coverage(implemented, wanted, ifEmpty) ==
    IF wanted # {} THEN Fraction(Cardinality(implemented) * 100, Cardinality(wanted))
    ELSE Fraction(ifEmpty, 1)

\* `sync_required: len(missing_tools) > 0`; the first definition is the
\* faulty variant that requires a sync whenever anything is expected.
SyncRequiredIfExpected(mcp_set, missing) == mcp_set # {}

SyncRequired(mcp_set, missing) == Cardinality(missing) > 0

\* generate_sync_report(decorated_methods, current_tools); the lists of
\* names it builds from sets are modelled as these sets.
GenerateSyncReport(E, current_tools) ==
    LET mcp_set == {McpName(k) : k \in E}
        current_set == current_tools
        missing == mcp_set \ current_set
        extra == current_set \ mcp_set
        implemented == mcp_set \cap current_set
    IN [missing_tools |-> missing,
        extra_tools |-> extra,
        implemented_tools |-> implemented,
        coverage_percentage |-> Coverage(implemented, mcp_set, CoverageOfNoneExpected),
        sync_required |-> SyncRequired(mcp_set, missing),
        decorated_method_details |-> DecoratedMethods(E)]

\* SyncValidator.validate_tools(existing_tools), the potential tools being
\* those generated for the discovered client methods.
ValidateTools(E, existing_tools) ==
    LET existing_set == existing_tools
        potential_set == {McpName(k) : k \in E}
    IN [implemented |-> existing_set,
        missing |-> potential_set \ existing_set,
        extra |-> existing_set \ potential_set,
        coverage_percentage |->
            Coverage(existing_set \cap potential_set, potential_set,
                     ValidatorCoverageOfNoneExpected)]

\* The orders in which list(a_set) may enumerate a set.
Orders(S) ==
    {f \in [1..Cardinality(S) -> S] : \A i, j \in DOMAIN f : f[i] = f[j] => i = j}

\* tools_to_sync of sync_to_service_files: every decorated method when
\* forced, else the details of the missing tools in the order of the list
\* missing_tools.
ToolsToSync(report, force, order) ==
    IF force THEN report.decorated_method_details
    ELSE [i \in 1..Len(order) |->
            LET d == report.decorated_method_details
            IN d[CHOOSE j \in 1..Len(d) : d[j].mcp_name = order[i]]]

\* The command line of a sync run.
Args ==
    [sync_files : BOOLEAN, force_update : BOOLEAN,
     generate_code : BOOLEAN, markdown : BOOLEAN]

ReportInit ==
    /\ expected \in SUBSET ExpectedUniverse
    /\ actual \in SUBSET ActualUniverse
    /\ lastReport = <<>>
    /\ lastValidation = <<>>
    /\ lastRun = <<>>
    /\ syncRuns = 0

\* A call of generate_sync_report on the scanned and the current tools.
generate_sync_report ==
    /\ lastReport' = <<GenerateSyncReport(expected, actual)>>
    /\ UNCHANGED <<expected, actual, lastValidation, lastRun, syncRuns>>
    /\ UNCHANGED notReport

\* A call of SyncValidator.validate_tools on the existing tools.
validate_tools ==
    /\ lastValidation' = <<ValidateTools(expected, actual)>>
    /\ UNCHANGED <<expected, actual, lastReport, lastRun, syncRuns>>
    /\ UNCHANGED notReport

\* The files a run writes besides the service files.
Written(args, report) ==
    {"json"} \cup (IF args.markdown THEN {"markdown"} ELSE {})
             \cup (IF args.generate_code /\ report.missing_tools # {}
                   THEN {"code"} ELSE {})

\* A run of sync_workflow.main.  Without XPLAINABLE_API_KEY the import of
\* the server module in discover_current_mcp_tools ends the run through
\* load_config's sys.exit(1), before any report exists.
sync_workflow_main(args, has_api_key, order) ==
    LET report == GenerateSyncReport(expected, actual)
        syncs == args.sync_files /\ (report.missing_tools # {} \/ args.force_update)
    IN /\ syncRuns < MaxSyncRuns
       /\ syncRuns' = syncRuns + 1
       /\ order \in Orders(report.missing_tools)
       /\ IF ~has_api_key
          THEN /\ lastRun' = <<[args |-> args, report |-> <<>>, synced |-> FALSE,
                               written |-> {}, exit |-> 1]>>
               /\ UNCHANGED <<lastReport, mergeVars>>
          ELSE /\ lastRun' = <<[args |-> args, report |-> <<report>>, synced |-> syncs,
                               written |-> Written(args, report),
                               exit |-> IF report.sync_required THEN 1 ELSE 0]>>
               /\ lastReport' = <<report>>
               /\ IF syncs
                  THEN /\ SyncEffect(ToolsToSync(report, args.force_update, order),
                                     args.force_update,
                                     NoFailures(ToolsToSync(report, args.force_update, order)))
                       /\ UNCHANGED <<mergeOps, failRuns>>
                  ELSE UNCHANGED mergeVars
       /\ UNCHANGED <<expected, actual, lastValidation>>
       /\ UNCHANGED notReportNorMerge

SyncRunCall ==
    \E args \in Args, has_api_key \in BOOLEAN :
        \E order \in Orders(GenerateSyncReport(expected, actual).missing_tools) :
            sync_workflow_main(args, has_api_key, order)

\* The run of main step by step: what it wrote so far, in order, is in
\* run.events.
IdleRun ==
    [pc |-> "idle", args |-> <<>>, report |-> <<>>, events |-> <<>>,
     before |-> NoFile, initBefore |-> <<>>]

RunInit == run = IdleRun

\* `if args.sync_files and (report['missing_tools'] or args.force_update):`
\* The first definition is the faulty variant that does not ask for the
\* flag.
SyncsToFilesWhenNeeded(args, report) ==
    report.missing_tools # {} \/ args.force_update

SyncsToFiles(args, report) ==
    args.sync_files /\ (report.missing_tools # {} \/ args.force_update)

\* parse_args and the two discoveries.  Without XPLAINABLE_API_KEY the
\* import of the server module ends the run with status 1.
main_discover(args, has_api_key) ==
    /\ syncRuns < MaxStepRuns
    /\ run.pc \in {"idle", "done"}
    /\ syncRuns' = syncRuns + 1
    /\ run' = [IdleRun EXCEPT !.pc = IF has_api_key THEN "discovered" ELSE "done",
                              !.args = <<args>>, !.before = serviceFile,
                              !.initBefore = initFile]
    /\ lastRun' = IF has_api_key THEN lastRun
                  ELSE <<[args |-> args, report |-> <<>>, synced |-> FALSE,
                          written |-> {}, exit |-> 1]>>
    /\ UNCHANGED <<expected, actual, lastReport, lastValidation>>
    /\ UNCHANGED <<mergeVars, adders, callers, dispatch, lastScan>>
    /\ UNCHANGED notReportNorMergeNorRun

MainDiscoverCall ==
    \E args \in Args, has_api_key \in BOOLEAN : main_discover(args, has_api_key)

\* generate_sync_report, the JSON report and the markdown report.
main_report ==
    LET report == GenerateSyncReport(expected, actual) IN
    /\ run.pc = "discovered"
    /\ lastReport' = <<report>>
    /\ run' = [run EXCEPT !.pc = "reported", !.report = <<report>>,
                          !.events = <<"json">> \o
                              (IF run.args[1].markdown THEN <<"markdown">> ELSE <<>>)]
    /\ UNCHANGED <<expected, actual, lastValidation, lastRun, syncRuns>>
    /\ UNCHANGED <<mergeVars, adders, callers, dispatch, lastScan>>
    /\ UNCHANGED notReportNorMergeNorRun

\* The guarded call of sync_to_service_files: sync_all_tools writes the
\* service files it adds to or updates, update_tools_init the aggregator
\* when a service file exists.
main_sync(order) ==
    LET args == run.args[1]
        report == run.report[1]
        tools == ToolsToSync(report, args.force_update, order)
    IN /\ run.pc = "reported"
       /\ order \in Orders(report.missing_tools)
       /\ IF SyncsToFiles(args, report)
          THEN /\ SyncEffect(tools, args.force_update, NoFailures(tools))
               /\ UNCHANGED <<mergeOps, failRuns>>
               /\ run' = [run EXCEPT !.pc = "materialized",
                            !.events = @ \o
                               (IF \E k \in 1..Len(lastSteps') :
                                      lastSteps'[k].result \in {"added", "updated"}
                                THEN <<"service_files">> ELSE <<>>) \o
                               (IF ServiceFiles(serviceFile', dirFiles) # {}
                                THEN <<"aggregator">> ELSE <<>>)]
          ELSE /\ UNCHANGED mergeVars
               /\ run' = [run EXCEPT !.pc = "materialized"]
       /\ UNCHANGED <<reportVars, adders, callers, dispatch, lastScan>>
       /\ UNCHANGED notReportNorMergeNorRun

MainSyncCall ==
    \E order \in UNION {Orders(S) : S \in SUBSET {McpName(k) : k \in ExpectedUniverse}} :
        main_sync(order)

\* The legacy code file, the summary and sys.exit.
main_exit ==
    LET args == run.args[1]
        report == run.report[1]
    IN /\ run.pc = "materialized"
       /\ run' = [run EXCEPT !.pc = "done",
                    !.events = @ \o (IF args.generate_code /\ report.missing_tools # {}
                                     THEN <<"code">> ELSE <<>>)]
       /\ lastRun' = <<[args |-> args, report |-> <<report>>,
                        synced |-> SyncsToFiles(args, report),
                        written |-> Written(args, report),
                        exit |-> IF report.sync_required THEN 1 ELSE 0]>>
       /\ UNCHANGED <<expected, actual, lastReport, lastValidation, syncRuns>>
       /\ UNCHANGED <<mergeVars, adders, callers, dispatch, lastScan>>
       /\ UNCHANGED notReportNorMergeNorRun

(***************************************************************************)
(* Discovery of the upstream methods: discover_mcp_decorated_methods of    *)
(* sync_workflow.py, ClientIntrospector and ToolGenerator of sync_utils.py.*)
(***************************************************************************)
\* Members of the upstream client classes, in the order the scans meet
\* them: modules as pkgutil.iter_modules yields them, members by name as
\* inspect.getmembers returns them.
UpstreamMembers ==
    <<[module |-> "deployments", name |-> "list_deployments"],
      [module |-> "models", name |-> "get_model"],
      [module |-> "models", name |-> "internal_request"],
      [module |-> "models", name |-> "list_team_models"]>>

MemberIds == 1..Len(UpstreamMembers)

UpstreamModules == {UpstreamMembers[k].module : k \in MemberIds}

\* discover_mcp_decorated_methods from member k on.  The first loop skips
\* a module whose import raised.  The second loop has no handler of its
\* own: when inspect.signature raises on a decorated member, the handler
\* around both loops ends the scan and the function returns what it had
\* appended so far.
RECURSIVE ScanDecorated(_, _, _, _)
ScanDecorated(k, decorated, importFails, sigFails) ==
    IF k > Len(UpstreamMembers) THEN <<>>
    ELSE LET m == UpstreamMembers[k]
         IN IF m.module \in importFails \/ k \notin decorated
            THEN ScanDecorated(k + 1, decorated, importFails, sigFails)
            ELSE IF k \in sigFails THEN <<>>
            ELSE <<[module |-> m.module, method |-> m.name,
                    mcp_name |-> m.module \o "_" \o m.name]>>
                 \o ScanDecorated(k + 1, decorated, importFails, sigFails)

\* ClientIntrospector._categorize_method
CategorizeMethod(name) ==
    IF \E w \in {"create", "update", "delete", "deploy", "activate", "deactivate",
                  "generate", "train", "start", "stop"} : Contains(Lower(name), w)
    THEN "write"
    ELSE IF \E w \in {"admin", "manage", "config"} : Contains(Lower(name), w)
    THEN "admin"
    ELSE IF StartsWith(name, "_") \/ Contains(Lower(name), "internal")
    THEN "internal"
    ELSE "read"

\* ClientIntrospector._discover_from_object over all the sub-clients: the
\* members whose introspection did not raise, as ClientMethod records.
DiscoverFromObject(properties, sigFails) ==
    {[name |-> UpstreamMembers[k].name, module |-> UpstreamMembers[k].module,
      category |-> CategorizeMethod(UpstreamMembers[k].name),
      is_property |-> k \in properties] : k \in MemberIds \ sigFails}

\* str.replace(".", "_")
RECURSIVE ReplaceDots(_)
ReplaceDots(s) ==
    IF s = "" THEN ""
    ELSE (IF SubSeq(s, 1, 1) = "." THEN "_" ELSE SubSeq(s, 1, 1))
         \o ReplaceDots(SubSeq(s, 2, Len(s)))

\* The tool name of ToolGenerator.generate_tool_definition.  The first
\* definition is the faulty variant that names a tool as the key of
\* discovered_methods does.
ToolNameAsMethodKey(module, name) == module \o "." \o name
ToolName(module, name) == ReplaceDots(module \o "_" \o name)

\* ToolGenerator.generate_tool_definition for every discovered method:
\* none for an internal method or a property.
ToolDefinitions(methods) ==
    {[name |-> ToolName(m.module, m.name), category |-> m.category,
      client_method |-> m.module \o "." \o m.name] :
        m \in {x \in methods : x.category # "internal" /\ ~x.is_property}}

DiscoveryInit == discoveries = <<>>

\* A call of discover_mcp_decorated_methods, given the members that carry
\* the marker, the modules whose import raises and the members on which
\* inspect.signature raises.
discover_mcp_decorated_methods(decorated, importFails, sigFails) ==
    /\ Len(discoveries) < MaxDiscoveries
    /\ discoveries' = Append(discoveries,
           [by |-> "sync_workflow", decorated |-> decorated,
            importFails |-> importFails, sigFails |-> sigFails,
            found |-> ScanDecorated(1, decorated, importFails, sigFails)])
    /\ UNCHANGED <<clientVars, toolsVars, wrapVars, mergeVars, reportVars, configVars,
                   concVars>>

\* The failures of one discovery: none, the import of one module, or
\* inspect.signature on one member.
OneFailure ==
    {f \in [modules : SUBSET UpstreamModules, members : SUBSET MemberIds] :
        Cardinality(f.modules) + Cardinality(f.members) <= 1}

DiscoverDecoratedCall ==
    \E decorated \in SUBSET MemberIds, f \in OneFailure :
        discover_mcp_decorated_methods(decorated, f.modules, f.members)

\* ClientIntrospector.discover_methods followed by the generation of the
\* tool definitions, as SyncValidator.validate_tools does.
discover_methods(properties, sigFails) ==
    /\ Len(discoveries) < MaxDiscoveries
    /\ discoveries' = Append(discoveries,
           [by |-> "sync_utils", properties |-> properties, sigFails |-> sigFails,
            methods |-> DiscoverFromObject(properties, sigFails),
            tools |-> ToolDefinitions(DiscoverFromObject(properties, sigFails))])
    /\ UNCHANGED <<clientVars, toolsVars, wrapVars, mergeVars, reportVars, configVars,
                   concVars>>

DiscoverMethodsCall ==
    \E properties \in SUBSET MemberIds, sigFails \in {f.members : f \in OneFailure} :
        discover_methods(properties, sigFails)

(***************************************************************************)
(* Specifications: one per part of the program, the other parts idle.      *)
(***************************************************************************)
ToolsIdle == ToolsInit /\ enable_write_tools = FALSE

ReportIdle == ReportInit /\ expected = {} /\ actual = {}

ConfigIdle == ConfigInit /\ HasApiKey(api_key_env)

(***************************************************************************)
(* tool_discovery.py: the static scan of a service file.  The texts of the *)
(* model are the boilerplate and functions rendered from the template,     *)
(* with docstrings free of quotes and backslashes, so ast.parse succeeds   *)
(* and a docstring is the lines between two lines that hold only the       *)
(* triple quote.                                                           *)
(***************************************************************************)
TripleQuote == "\"\"\""

\* func_node.name of a def line: the text between "def " and "(".
DefName(line) ==
    LET e == CHOOSE k \in 5..Len(line) :
                 /\ SubSeq(line, k, k) = "("
                 /\ \A h \in 5..(k - 1) : SubSeq(line, h, h) # "("
    IN SubSeq(line, 5, e - 1)

\* The def lines ast finds under an @mcp.tool() decorator, in file order.
DecoratedDefs(content) ==
    {j \in 2..Len(content) :
        /\ StartsWith(content[j], "def ")
        /\ \E i \in 1..(j - 1) :
              /\ IsDecorator(content[i])
              /\ FirstNonBlank(content, i + 1) = j}

\* func_node.body[0].value.value: the lines of the docstring of the def at
\* line j, <<>> when the function has none.
DocstringOf(content, j) ==
    IF j + 1 <= Len(content) /\ Strip(content[j + 1]) = TripleQuote
    THEN LET e == FirstIn(content, {k \in (j + 2)..Len(content) :
                                       Strip(content[k]) = TripleQuote})
         IN SubSeq(content, j + 2, e - 1)
    ELSE <<>>

\* line.split(":", 1)[1].strip()
AfterColon(line) ==
    LET c == CHOOSE k \in 1..Len(line) :
                 /\ SubSeq(line, k, k) = ":"
                 /\ \A h \in 1..(k - 1) : SubSeq(line, h, h) # ":"
    IN Strip(SubSeq(line, c + 1, Len(line)))

\* The category _extract_tool_info reads: that of the first line of the
\* docstring that starts with "Category:", else "read".
CategoryOf(doc) ==
    LET S == {k \in 1..Len(doc) : StartsWith(Strip(doc[k]), "Category:")}
    IN IF S = {} THEN "read" ELSE AfterColon(doc[FirstIn(doc, S)])

\* _extract_tool_info for the def at line j.
ExtractStaticInfo(content, j, service_name) ==
    [name |-> DefName(content[j]), module |-> service_name,
     category |-> CategoryOf(DocstringOf(content, j))]

\* _discover_tools_in_file: discovered_tools is keyed by the name, so of
\* two decorated functions of one name the later one stays.
DiscoverToolsInFile(content, service_name) ==
    LET D == DecoratedDefs(content)
    IN {ExtractStaticInfo(content, j, service_name) :
           j \in {d \in D : \A h \in D :
                     DefName(content[h]) = DefName(content[d]) => h <= d}}

\* The upstream docstrings and categories of the round trip: a docstring
\* may hold a line of its own that starts with "Category:".
ScanDoc(method, marked) ==
    IF marked THEN <<"Execute " \o method, "", "Category: read">>
    ELSE <<"Execute " \o method>>

ScanCategories == {"read", "write"}

ScanInfos ==
    {[MethodInfo(Methods[x[1]], 1) EXCEPT !.doc = ScanDoc(Methods[x[1]], x[2]),
                                          !.category = x[3]] :
        x \in (1..Len(Methods)) \X BOOLEAN \X ScanCategories}

ScanInit == lastScan = <<>>

\* generate_tool_implementation and add_tool_to_service for one method.
ScanAddCall ==
    \E info \in ScanInfos : add_tool_to_service(info, FALSE)

\* A static scan of the service file.
discover_tools_in_file ==
    /\ serviceFile # NoFile
    /\ lastScan' = <<[file |-> serviceFile,
                      tools |-> DiscoverToolsInFile(serviceFile, Service)]>>
    /\ UNCHANGED <<clientVars, toolsVars, wrapVars, mergeVars, reportVars, discoveries,
                   configVars, adders, callers, dispatch, run>>

(***************************************************************************)
(* Two processes in add_tool_to_service on the same service file.  The     *)
(* method takes no lock: it tests that the file exists (creating it        *)
(* otherwise), reads it, and later writes the text it computed from what   *)
(* it read.                                                                *)
(***************************************************************************)
Procs == {1, 2}

IdleAdder ==
    [pc |-> "idle", info |-> <<>>, force |-> FALSE, current |-> <<>>,
     over |-> <<>>, result |-> ""]

AddersInit == adders = [p \in Procs |-> IdleAdder]

\* file_path.write_text(updated_content): the text the file has after the
\* write of a process that read `read` while the file holds onDisk.  The
\* first definition is the faulty variant that computes the text from the
\* file as it is when written.
WrittenContentLocked(read, onDisk, info, force) ==
    AddToolToService(onDisk, Render(info), info.mcp_name, force).content

WrittenContent(read, onDisk, info, force) ==
    AddToolToService(read, Render(info), info.mcp_name, force).content

\* `if not file_path.exists(): self.create_service_file(service_name)`;
\* create_service_file tests the existence itself right before it writes.
add_tool_begin(p, info, force) ==
    /\ mergeOps < MaxAddCalls
    /\ adders[p].pc \in {"idle", "done"}
    /\ mergeOps' = mergeOps + 1
    /\ serviceFile' = IF serviceFile = NoFile THEN Boilerplate ELSE serviceFile
    /\ adders' = [adders EXCEPT ![p] =
                     [IdleAdder EXCEPT !.pc = "opened", !.info = <<info>>,
                                       !.force = force]]
    /\ UNCHANGED <<initFile, lastSteps, runs, dirFiles, failRuns, callers, dispatch, run, lastScan>>
    /\ UNCHANGED <<clientVars, toolsVars, wrapVars, reportVars, discoveries, configVars>>

AddBeginCall ==
    \E p \in Procs, m \in 1..Len(Methods), v \in LibraryVersions, force \in BOOLEAN :
        add_tool_begin(p, MethodInfo(Methods[m], v), force)

\* `current_content = file_path.read_text()`.
add_tool_read(p) ==
    /\ adders[p].pc = "opened"
    /\ adders' = [adders EXCEPT ![p].pc = "read", ![p].current = serviceFile]
    /\ UNCHANGED <<mergeVars, callers, dispatch, run, lastScan>>
    /\ UNCHANGED <<clientVars, toolsVars, wrapVars, reportVars, discoveries, configVars>>

AddReadCall == \E p \in Procs : add_tool_read(p)

\* The rest of the method: the decision taken on the text read, the write
\* and the value returned.
add_tool_write(p) ==
    LET a == adders[p]
        r == AddToolToService(a.current, Render(a.info[1]), a.info[1].mcp_name,
                              a.force).result
    IN /\ a.pc = "read"
       /\ serviceFile' = IF r = "skipped" THEN serviceFile
                         ELSE WrittenContent(a.current, serviceFile, a.info[1], a.force)
       /\ adders' = [adders EXCEPT ![p].pc = "done", ![p].over = serviceFile,
                                   ![p].result = r]
       /\ UNCHANGED <<initFile, lastSteps, runs, mergeOps, dirFiles, failRuns,
                      callers, dispatch, run, lastScan>>
       /\ UNCHANGED <<clientVars, toolsVars, wrapVars, reportVars, discoveries,
                      configVars>>

AddWriteCall == \E p \in Procs : add_tool_write(p)

(***************************************************************************)
(* Two callers in server.get_client() / client_manager.get_client().  The  *)
(* function takes no lock: it tests the module global, constructs and      *)
(* stores the client, and returns what the global holds then.              *)
(***************************************************************************)
\* Requests are served one at a time, or in threads of one process.
Dispatches == {"serial", "threads"}

IdleCaller == [pc |-> "idle", mod |-> "none", sawNone |-> FALSE, outcome |-> "none",
               ret |-> None]

CallersInit == callers = [p \in Procs |-> IdleCaller]

InFlight(p) == callers[p].pc \in {"tested", "stored"}

\* `if _client is None:` of a call entered by p.
get_client_test(p, m) ==
    /\ getCalls < MaxGetCalls
    /\ m = "server" => HasApiKey(api_key_env)
    /\ ~InFlight(p)
    /\ dispatch = "serial" => \A q \in Procs : ~InFlight(q)
    /\ getCalls' = getCalls + 1
    /\ callers' = [callers EXCEPT ![p] =
                      [IdleCaller EXCEPT !.pc = "tested", !.mod = m,
                                         !.sawNone = NeedsConstruction(client[m])]]
    /\ UNCHANGED <<client, ctorCalls, built, lastGet, adders, dispatch, run, lastScan>>
    /\ UNCHANGED <<toolsVars, wrapVars, mergeVars, reportVars, discoveries, configVars>>

GetClientTestCall == \E p \in Procs, m \in ClientModules : get_client_test(p, m)

\* `_client = XplainableClient(...)` and the except clauses around it.
get_client_build(p, env) ==
    LET m == callers[p].mod IN
    /\ callers[p].pc = "tested"
    /\ callers[p].sawNone
    /\ CASE env = "ok" ->
              /\ ctorCalls' = [ctorCalls EXCEPT ![m] = @ + 1]
              /\ built' = built + 1
              /\ client' = [client EXCEPT ![m] = built + 1]
              /\ callers' = [callers EXCEPT ![p].pc = "stored"]
              /\ UNCHANGED lastGet
         [] env = "ImportError" ->
              /\ UNCHANGED <<ctorCalls, built, client>>
              /\ callers' = [callers EXCEPT ![p].pc = "done",
                                            ![p].outcome = ConstructionFailure(m)]
              /\ lastGet' = [mod |-> m, path |-> "failed",
                             outcome |-> ConstructionFailure(m), ret |-> None]
         [] env = "Exception" ->
              /\ ctorCalls' = [ctorCalls EXCEPT ![m] = @ + 1]
              /\ UNCHANGED <<built, client>>
              /\ callers' = [callers EXCEPT ![p].pc = "done",
                                            ![p].outcome = ConstructionFailure(m)]
              /\ lastGet' = [mod |-> m, path |-> "failed",
                             outcome |-> ConstructionFailure(m), ret |-> None]
    /\ UNCHANGED <<getCalls, adders, dispatch, run, lastScan>>
    /\ UNCHANGED <<toolsVars, wrapVars, mergeVars, reportVars, discoveries, configVars>>

GetClientBuildCall == \E p \in Procs, env \in BuildOutcomes : get_client_build(p, env)

\* `return _client`: the global is read again.
get_client_return(p) ==
    LET m == callers[p].mod IN
    /\ \/ callers[p].pc = "stored"
       \/ callers[p].pc = "tested" /\ ~callers[p].sawNone
    /\ callers' = [callers EXCEPT ![p].pc = "done", ![p].outcome = "ok",
                                  ![p].ret = client[m]]
    /\ lastGet' = [mod |-> m,
                   path |-> IF callers[p].sawNone THEN "constructed" ELSE "cached",
                   outcome |-> "ok", ret |-> client[m]]
    /\ UNCHANGED <<client, ctorCalls, built, getCalls, adders, dispatch, run, lastScan>>
    /\ UNCHANGED <<toolsVars, wrapVars, mergeVars, reportVars, discoveries, configVars>>

GetClientReturnCall == \E p \in Procs : get_client_return(p)

ConcIdle == AddersInit /\ CallersInit /\ dispatch = "serial" /\ RunInit /\ ScanInit

ClientNext == GetClientCall

ClientSpecInit ==
    ClientInit /\ ToolsIdle /\ WrapperInit /\ MergeInit /\ ReportIdle /\ DiscoveryInit
    /\ ConfigIdle /\ ConcIdle

ClientSpec == ClientSpecInit /\ [][ClientNext]_vars

ToolsNext ==
    \/ ImportServer
    \/ ImportToolsPackage
    \/ ListToolsCall
    \/ ListAllToolsCall

ToolsSpecInit ==
    ToolsInit /\ ClientInit /\ WrapperInit /\ MergeInit /\ ReportIdle /\ DiscoveryInit
    /\ ConfigIdle /\ ConcIdle

ToolsSpec == ToolsSpecInit /\ [][ToolsNext]_vars

WrapperNext ==
    \/ InvokeCall
    \/ GuardedCall
    \/ GetConnectionInfoCall

WrapperSpecInit ==
    WrapperInit /\ ClientInit /\ ToolsIdle /\ MergeInit /\ ReportIdle /\ DiscoveryInit
    /\ ConfigIdle /\ ConcIdle

WrapperSpec == WrapperSpecInit /\ [][WrapperNext]_vars

MergeNext ==
    \/ AddToolCall
    \/ SyncAllToolsCall
    \/ DuplicateCall

MergeSpecInit ==
    MergeInit /\ ClientInit /\ ToolsIdle /\ WrapperInit /\ ReportIdle /\ DiscoveryInit
    /\ ConfigIdle /\ ConcIdle

MergeSpec == MergeSpecInit /\ [][MergeNext]_vars

ReportNext ==
    \/ generate_sync_report
    \/ validate_tools
    \/ SyncRunCall

ReportSpecInit ==
    ReportInit /\ MergeInit /\ ClientInit /\ ToolsIdle /\ WrapperInit /\ DiscoveryInit
    /\ ConfigIdle /\ ConcIdle

ReportSpec == ReportSpecInit /\ [][ReportNext]_vars

DirNext == SyncRaisingCall

DirSpecInit ==
    DirInit /\ ClientInit /\ ToolsIdle /\ WrapperInit /\ ReportIdle /\ DiscoveryInit
    /\ ConfigIdle /\ ConcIdle

DirSpec == DirSpecInit /\ [][DirNext]_vars

DiscoveryNext ==
    \/ DiscoverDecoratedCall
    \/ DiscoverMethodsCall

DiscoverySpecInit ==
    DiscoveryInit /\ ClientInit /\ ToolsIdle /\ WrapperInit /\ MergeInit /\ ReportIdle
    /\ ConfigIdle /\ ConcIdle

DiscoverySpec == DiscoverySpecInit /\ [][DiscoveryNext]_vars

ConfigNext ==
    \/ LoadConfigCall
    \/ GetClientCall

ConfigSpecInit ==
    ConfigInit /\ ClientInit /\ ToolsIdle /\ WrapperInit /\ MergeInit /\ ReportIdle
    /\ DiscoveryInit /\ ConcIdle

ConfigSpec == ConfigSpecInit /\ [][ConfigNext]_vars

RunStepsNext ==
    \/ MainDiscoverCall
    \/ main_report
    \/ MainSyncCall
    \/ main_exit

RunStepsSpecInit ==
    ReportInit /\ MergeInit /\ ClientInit /\ ToolsIdle /\ WrapperInit /\ DiscoveryInit
    /\ ConfigIdle /\ ConcIdle

RunStepsSpec == RunStepsSpecInit /\ [][RunStepsNext]_vars

ScanNext ==
    \/ ScanAddCall
    \/ discover_tools_in_file

ScanSpecInit ==
    MergeInit /\ ClientInit /\ ToolsIdle /\ WrapperInit /\ ReportIdle /\ DiscoveryInit
    /\ ConfigIdle /\ ConcIdle

ScanSpec == ScanSpecInit /\ [][ScanNext]_vars

ConcurrentAddNext ==
    \/ AddBeginCall
    \/ AddReadCall
    \/ AddWriteCall

ConcurrentAddSpecInit ==
    MergeInit /\ ClientInit /\ ToolsIdle /\ WrapperInit /\ ReportIdle /\ DiscoveryInit
    /\ ConfigIdle /\ ConcIdle

ConcurrentAddSpec == ConcurrentAddSpecInit /\ [][ConcurrentAddNext]_vars

ConcurrentClientNext ==
    \/ GetClientTestCall
    \/ GetClientBuildCall
    \/ GetClientReturnCall

ConcurrentClientSpecInit ==
    ClientInit /\ ToolsIdle /\ WrapperInit /\ MergeInit /\ ReportIdle /\ DiscoveryInit
    /\ ConfigIdle /\ AddersInit /\ CallersInit /\ dispatch \in Dispatches /\ RunInit /\ ScanInit

ConcurrentClientSpec == ConcurrentClientSpecInit /\ [][ConcurrentClientNext]_vars


(***************************************************************************)
(* C1: once a get_client() call of a module has constructed the client,    *)
(* every later call in that module returns that same cached instance and   *)
(* the constructor is not invoked again.                                   *)
(***************************************************************************)
C1_CachedClientReused ==
    [][\A m \in ClientModules :
         client[m] # None =>
            /\ client'[m] = client[m]
            /\ ctorCalls'[m] = ctorCalls[m]
            /\ (getCalls' # getCalls /\ lastGet'.mod = m =>
                  /\ lastGet'.outcome = "ok"
                  /\ lastGet'.ret = client[m])]_vars

\* A call answered from the cache, after exactly one construction.
C1_Witness ==
    /\ lastGet.path = "cached"
    /\ lastGet.ret = client[lastGet.mod]
    /\ ctorCalls[lastGet.mod] = 1


(***************************************************************************)
(* C2: with the write-enable flag false, no write-category wrapper is      *)
(* registered as a callable tool on any FastMCP instance.                  *)
(***************************************************************************)
C2_WriteToolsOnlyWhenEnabled ==
    ~enable_write_tools =>
        \A i \in McpInstances : \A t \in registered[i] : ~IsWriteWrapper(t)

(***************************************************************************)
(* C3 as stated: whenever obtaining the client or the upstream call raises *)
(* E, the wrapper raises exactly E to its caller, and the upstream method  *)
(* is invoked at most once.                                                *)
(***************************************************************************)
C3_PropagatesExactly ==
    \A k \in 1..Len(lastInv) :
        LET i == lastInv[k]
        IN /\ Len(i.run.calls) <= 1
           /\ i.got.outcome # "ok" =>
                 /\ i.run.out = Raises(Exc(i.got.outcome, "1"))
                 /\ i.run.calls = <<>>
           /\ i.got.outcome = "ok" /\ i.up.kind = "raise" =>
                 i.run.out = Raises(i.up.exc)

(***************************************************************************)
(* C3 amended: the same, except that list_team_models, which makes its     *)
(* upstream call through safe_client_call, answers a TypeError whose text  *)
(* contains "'NoneType' object is not iterable" with the empty list; the   *)
(* upstream method is invoked at most once in every case.                  *)
(***************************************************************************)
C3_PropagatesExactlyUnlessGuarded ==
    \A k \in 1..Len(lastInv) :
        LET i == lastInv[k]
            guarded == /\ i.tool = "list_team_models"
                       /\ i.up.exc.type = "TypeError"
                       /\ Contains(i.up.exc.msg, NoneIterMsg)
        IN /\ Len(i.run.calls) <= 1
           /\ i.got.outcome # "ok" =>
                 /\ i.run.out = Raises(Exc(i.got.outcome, "1"))
                 /\ i.run.calls = <<>>
           /\ i.got.outcome = "ok" /\ i.up.kind = "raise" =>
                 IF guarded THEN i.run.out = Returns(ListOf(<<>>))
                 ELSE i.run.out = Raises(i.up.exc)

\* An upstream call raised "API Error" and the wrapper raised it on, after
\* one upstream invocation and one error line.
C3_Witness ==
    /\ lastInv # <<>>
    /\ lastInv[1].got.outcome = "ok"
    /\ lastInv[1].up = Raises(Exc("Exception", "API Error"))
    /\ lastInv[1].run.out = lastInv[1].up
    /\ Len(lastInv[1].run.calls) = 1
    /\ lastInv[1].run.logs = <<Line("error", lastInv[1].tool)>>

(***************************************************************************)
(* C4: when sync_all_tools runs a second time on the file the first run    *)
(* left, with the same tools and force-update off, every tool is reported  *)
(* 'skipped' and none 'added' or 'updated'.                                *)
(***************************************************************************)
C4_SecondRunAllSkipped ==
    Len(runs) = 2 /\ runs[2].tools = runs[1].tools /\ ~runs[2].force =>
        /\ runs[2].results.added = 0
        /\ runs[2].results.updated = 0
        /\ runs[2].results.skipped = Len(runs[2].tools)

\* The first occurrence of a tool in a file: the line of its first def, or
\* the decorator line right above it.
FirstOccurrence(content, name) ==
    LET q == CHOOSE i \in 1..Len(content) :
                 /\ IsDefOf(content[i], name)
                 /\ \A h \in 1..(i - 1) : ~IsDefOf(content[h], name)
    IN IF q > 1 /\ IsDecorator(content[q - 1]) THEN q - 1 ELSE q

(***************************************************************************)
(* C5: an add_tool_to_service call that updates a tool occurring once or   *)
(* more in the file leaves exactly one definition of it, the freshly       *)
(* rendered text, starting where the first previous occurrence started     *)
(* (everything above it untouched).                                        *)
(***************************************************************************)
C5_UpdateLeavesOneFreshDefinition ==
    \A k \in 1..Len(lastSteps) :
        LET s == lastSteps[k]
            p == FirstOccurrence(s.before, s.name)
        IN s.result = "updated" =>
              /\ Cardinality({i \in 1..Len(s.after) : IsDefOf(s.after[i], s.name)}) = 1
              /\ SubSeq(s.after, 1, p - 1) = SubSeq(s.before, 1, p - 1)
              /\ SubSeq(s.after, p, p + Len(s.code) - 1) = s.code

\* A forced update of a tool defined twice, with a changed docstring.
C5_Witness ==
    \E k \in 1..Len(lastSteps) :
        LET s == lastSteps[k]
        IN /\ s.result = "updated"
           /\ Cardinality({i \in 1..Len(s.before) : IsDefOf(s.before[i], s.name)}) = 2
           /\ Cardinality({i \in 1..Len(s.after) : IsDefOf(s.after[i], s.name)}) = 1
           /\ ExtractToolFromContent(s.before, s.name)
                 # ExtractToolFromContent(s.after, s.name)

(***************************************************************************)
(* C6: syncing the same tools a second time leaves the service file        *)
(* byte-identical to what the first sync left.                             *)
(***************************************************************************)
C6_ResyncByteIdentical ==
    Len(runs) = 2 /\ runs[2].tools = runs[1].tools =>
        runs[2].after = runs[1].after

(***************************************************************************)
(* C7: for every expected set E and actual set A, the report of            *)
(* generate_sync_report and that of validate_tools have missing = E \ A,   *)
(* extra = A \ E and implemented = E \cap A, so that the three are         *)
(* pairwise disjoint and cover E and A.                                    *)
(***************************************************************************)
C7_ReportPartitions ==
    LET E == {McpName(k) : k \in expected}
        A == actual
    IN /\ \A k \in 1..Len(lastReport) :
             /\ lastReport[k].missing_tools = E \ A
             /\ lastReport[k].extra_tools = A \ E
             /\ lastReport[k].implemented_tools = E \cap A
       /\ \A k \in 1..Len(lastValidation) :
             /\ lastValidation[k].missing = E \ A
             /\ lastValidation[k].extra = A \ E
             /\ lastValidation[k].implemented = E \cap A

(***************************************************************************)
(* C8: the coverage percentage of both reports lies in [0, 100], and is    *)
(* 100 when nothing is expected.                                           *)
(***************************************************************************)
C8_CoverageInRange ==
    LET Good(c) == /\ c.den > 0
                   /\ 0 <= c.num
                   /\ c.num <= 100 * c.den
                   /\ (expected = {} => c.num = 100 * c.den)
    IN /\ \A k \in 1..Len(lastReport) : Good(lastReport[k].coverage_percentage)
       /\ \A k \in 1..Len(lastValidation) : Good(lastValidation[k].coverage_percentage)

(***************************************************************************)
(* C9 as stated: every sync run exits with code 1 exactly when a sync was  *)
(* required (an expected tool is missing) and with code 0 exactly when     *)
(* fully synced, whatever flags were given.                                *)
(***************************************************************************)
C9_ExitCodeIsSyncRequired ==
    \A k \in 1..Len(lastRun) :
        LET missing == {McpName(e) : e \in expected} \ actual
        IN /\ lastRun[k].exit \in {0, 1}
           /\ lastRun[k].exit = 1 <=> missing # {}

(***************************************************************************)
(* C9 amended: a sync run that gets as far as its report exits with code 1 *)
(* exactly when the report's sync_required is true (an expected tool is    *)
(* missing) and with code 0 exactly when it is false, whatever flags were  *)
(* given and whether or not the run synced the service files; a run ended  *)
(* before the report by the missing API key exits with code 1.             *)
(***************************************************************************)
C9_ExitCodeOfReportedRun ==
    \A k \in 1..Len(lastRun) :
        LET missing == {McpName(e) : e \in expected} \ actual
            r == lastRun[k]
        IN /\ r.exit \in {0, 1}
           /\ r.report # <<>> =>
                 /\ r.report[1].sync_required <=> missing # {}
                 /\ r.exit = 1 <=> r.report[1].sync_required
           /\ r.report = <<>> => r.exit = 1

\* A run with --sync-files that synced the missing tools and still exits 1.
C9_Witness ==
    /\ lastRun # <<>>
    /\ lastRun[1].args.sync_files
    /\ lastRun[1].synced
    /\ lastRun[1].report # <<>>
    /\ lastRun[1].report[1].sync_required
    /\ lastRun[1].exit = 1
    /\ serviceFile # NoFile

(***************************************************************************)
(* C10: with write tools disabled, list_tools() and the registry's         *)
(* to_dict() report zero enabled write tools and count no write tool in    *)
(* total_tools.                                                            *)
(***************************************************************************)
C10_WriteToolsNotListed ==
    ~enable_write_tools =>
        /\ \A k \in 1..Len(lastList) :
              /\ lastList[k].summary.write_tools = 0
              /\ "write" \notin DOMAIN lastList[k].categories
              /\ lastList[k].total_tools =
                    lastList[k].summary.discovery_tools
                      + lastList[k].summary.read_tools
                      + lastList[k].summary.admin_tools
        /\ \A k \in 1..Len(lastDict) :
              /\ {t \in lastDict[k].categories["write"] : t.enabled} = {}
              /\ lastDict[k].total_tools =
                    lastDict[k].summary.discovery_tools
                      + lastDict[k].summary.read_tools
                      + lastDict[k].summary.admin_tools

C12_FailureSkipsOnlyThatTool ==
    runs # <<>> =>
        LET r == runs[Len(runs)]
            ok == {k \in 1..Len(r.tools) : r.fails[k] = "none"}
        IN /\ Len(lastSteps) = Len(r.tools)
           /\ \A k \in 1..Len(r.tools) :
                 /\ lastSteps[k].name = r.tools[k].mcp_name
                 /\ k \in ok =>
                       /\ lastSteps[k].result \in {"added", "updated", "skipped"}
                       /\ Defines(lastSteps[k].after, lastSteps[k].name)
                 /\ k \notin ok =>
                       /\ lastSteps[k].result = "failed"
                       /\ lastSteps[k].after \in {lastSteps[k].before, Boilerplate}
           /\ r.results.added + r.results.updated + r.results.skipped
                = Cardinality(ok)

\* The first tool of a run raised and the second was still added.
C12_Witness ==
    /\ runs # <<>>
    /\ Len(lastSteps) = 2
    /\ lastSteps[1].result = "failed"
    /\ lastSteps[2].result = "added"
    /\ runs[Len(runs)].results.added = 1

(***************************************************************************)
(* C13: in the discovery of the expected set, a failure while introspecting*)
(* one upstream method or module skips only that item: every other method  *)
(* that could be introspected is in the discovered set.                    *)
(***************************************************************************)
C13_DiscoveryFailureSkipsOnlyThatItem ==
    \A i \in 1..Len(discoveries) :
        LET d == discoveries[i]
        IN /\ d.by = "sync_workflow" =>
                \A k \in d.decorated \ d.sigFails :
                    UpstreamMembers[k].module \notin d.importFails =>
                        \E j \in 1..Len(d.found) :
                            /\ d.found[j].module = UpstreamMembers[k].module
                            /\ d.found[j].method = UpstreamMembers[k].name
           /\ d.by = "sync_utils" =>
                \A k \in MemberIds \ d.sigFails :
                    \E m \in d.methods :
                        /\ m.module = UpstreamMembers[k].module
                        /\ m.name = UpstreamMembers[k].name

(***************************************************************************)
(* C14: for every upstream method (module m, name f) that is not marked    *)
(* internal and is not a property, the expected tool name is exactly       *)
(* m, "_", f and depends on nothing else.                                  *)
(***************************************************************************)
C14_ToolNameIsModuleUnderscoreMethod ==
    \A i \in 1..Len(discoveries) :
        LET d == discoveries[i]
        IN /\ d.by = "sync_workflow" =>
                \A j \in 1..Len(d.found) :
                    d.found[j].mcp_name = d.found[j].module \o "_" \o d.found[j].method
           /\ d.by = "sync_utils" =>
                \A m \in d.methods :
                    m.category # "internal" /\ ~m.is_property =>
                        /\ \E t \in d.tools :
                              /\ t.client_method = m.module \o "." \o m.name
                              /\ t.name = m.module \o "_" \o m.name
                        /\ \A t \in d.tools :
                              t.client_method = m.module \o "." \o m.name =>
                                  t.name = m.module \o "_" \o m.name

\* A discovery by sync_utils that names tools and leaves out an internal
\* method and a property.
C14_Witness ==
    /\ discoveries # <<>>
    /\ discoveries[1].by = "sync_utils"
    /\ Cardinality(discoveries[1].tools) = 2
    /\ Cardinality(discoveries[1].methods) = 4
    /\ \E t \in discoveries[1].tools : t.name = "models_list_team_models"

\* The characters of lines i..j of a text, "\n" between the lines.
RECURSIVE Flat(_, _, _)
Flat(text, i, j) ==
    IF i > j THEN ""
    ELSE IF i = j THEN text[i]
    ELSE LET m == (i + j) \div 2
         IN Flat(text, i, m) \o "\n" \o Flat(text, m + 1, j)

(***************************************************************************)
(* C15: add_tool_to_service for a tool name with no definition in the      *)
(* service file returns 'added', and the new content of the file is the    *)
(* previous content, unchanged, followed by the rendered tool text.        *)
(***************************************************************************)
C15_AddAppendsToPreviousContent ==
    \A k \in 1..Len(lastSteps) :
        LET s == lastSteps[k]
            previous == IF s.before = NoFile THEN Boilerplate ELSE s.before
        IN s.result # "failed" /\ ~Defines(previous, s.name) =>
              /\ s.result = "added"
              /\ Len(s.after) >= Len(previous)
              /\ \A n \in 1..(Len(previous) - 1) : s.after[n] = previous[n]
              /\ Flat(s.after, 1, Len(s.after))
                   = Flat(previous, 1, Len(previous))
                     \o Flat(s.code, 1, Len(s.code)) \o "\n"

\* A tool added to a service file that already defines the other tool.
C15_Witness ==
    \E k \in 1..Len(lastSteps) :
        LET s == lastSteps[k]
        IN /\ s.result = "added"
           /\ s.before # NoFile
           /\ \E m \in 1..Len(Methods) :
                 /\ Service \o "_" \o Methods[m] # s.name
                 /\ Defines(s.before, Service \o "_" \o Methods[m])
                 /\ Defines(s.after, Service \o "_" \o Methods[m])
           /\ Defines(s.after, s.name)

(***************************************************************************)
(* C16: load_config never returns a configuration when the API key         *)
(* environment variable is unset or empty: it ends the process with a      *)
(* non-zero exit status instead.                                           *)
(***************************************************************************)
C16_LoadConfigExitsWithoutKey ==
    \A i \in 1..Len(lastLoad) :
        LET l == lastLoad[i]
        IN (l.api_key = <<>> \/ l.api_key = <<"">>) =>
              /\ l.result.outcome = "exit"
              /\ l.result.status # 0
              /\ l.result.config = <<>>

\* load_config has ended the process on a key that is set but empty.
C16_Witness ==
    /\ lastLoad # <<>>
    /\ lastLoad[1].api_key = <<"">>
    /\ lastLoad[1].result.outcome = "exit"
    /\ lastLoad[1].result.status = 1

(***************************************************************************)
(* C17: on every path through get_client(), in either module, if no API    *)
(* key is configured a fatal configuration error is raised and no upstream *)
(* client is constructed or cached.                                        *)
(***************************************************************************)
C17_GetClientFailsFastWithoutKey ==
    (api_key_env = <<>> \/ api_key_env = <<"">>) =>
        /\ \A m \in ClientModules : client[m] = None /\ ctorCalls[m] = 0
        /\ lastGet.mod # "none" => lastGet.outcome # "ok"

(***************************************************************************)
(* C18: every invocation of a tool wrapper writes exactly one log line,    *)
(* an informational line when it returns and an error line when it raises, *)
(* for every upstream outcome.                                             *)
(***************************************************************************)
C18_OneLogLinePerInvocation ==
    \A k \in 1..Len(lastInv) :
        LET r == lastInv[k].run
        IN /\ Len(r.logs) = 1
           /\ r.out.kind = "return" => r.logs[1].level = "info"
           /\ r.out.kind = "raise" => r.logs[1].level = "error"

\* The four rules of the response normalization, the first that matches.
Normalized(v, collection) ==
    IF v.kind = "none" /\ collection THEN ListOf(<<>>)
    ELSE IF HasDump(v) THEN Dump(v)
    ELSE IF v.kind = "list" /\ v.items # <<>> /\ HasDump(v.items[1])
    THEN ListOf(DumpAll(v.items))
    ELSE v

(***************************************************************************)
(* C19: the normalization a wrapper generated from the template applies to *)
(* the value the upstream method returned gives the result of the first    *)
(* matching rule: None where a collection was expected gives an empty      *)
(* collection; a value that can be dumped gives its dump; a sequence whose *)
(* first element can be dumped gives the dump of every element in order;   *)
(* any other value is returned unchanged.                                  *)
(***************************************************************************)
C19_NormalizationByFirstMatchingRule ==
    \A k \in 1..Len(lastInv) :
        LET i == lastInv[k]
        IN /\ i.got.outcome = "ok"
           /\ i.up.kind = "return"
           /\ i.tool \notin {"list_team_models", "list_deployments", "get_model"}
           => i.run.out = Returns(Normalized(i.up.val, ExpectsCollection(i.tool)))

(***************************************************************************)
(* C20: safe_model_dump_list returns the empty list for None, and for a    *)
(* list whose items all have model_dump it returns the list of their       *)
(* dumps, of the same length and in the same order.                        *)
(***************************************************************************)
C20_SafeModelDumpListDumpsInOrder ==
    \A k \in 1..Len(lastInv) :
        LET i == lastInv[k]
            v == i.up.val
            out == i.run.out
        IN /\ i.tool \in {"list_team_models", "list_deployments"}
           /\ i.got.outcome = "ok"
           /\ i.up.kind = "return"
           => /\ v.kind = "none" => out = Returns(ListOf(<<>>))
              /\ v.kind = "list" /\ AllHaveDump(v.items) =>
                    /\ out.kind = "return"
                    /\ out.val.kind = "list"
                    /\ Len(out.val.items) = Len(v.items)
                    /\ \A n \in 1..Len(v.items) : out.val.items[n] = Dump(v.items[n])

\* A list of two different models went through safe_model_dump_list.
C20_Witness ==
    /\ lastInv # <<>>
    /\ lastInv[1].tool = "list_deployments"
    /\ lastInv[1].got.outcome = "ok"
    /\ lastInv[1].up = Returns(ListOf(<<Model(1), Model(2)>>))
    /\ lastInv[1].run.out = Returns(ListOf(<<Dump(Model(1)), Dump(Model(2))>>))

(***************************************************************************)
(* C21 as stated: a guarded call answers an upstream "iterate over null"   *)
(* error with the empty result instead of raising it, raises every other   *)
(* exception unchanged, and returns unchanged the value of an upstream     *)
(* call that returned.                                                     *)
(***************************************************************************)
C21_GuardedCallMapsOnlyNullIteration ==
    \A k \in 1..Len(lastGuarded) :
        LET g == lastGuarded[k]
            nullIteration == /\ g.up.kind = "raise"
                             /\ g.up.exc.type = "TypeError"
                             /\ Contains(g.up.exc.msg, NoneIterMsg)
        IN /\ Len(g.run.calls) = 1
           /\ nullIteration =>
                 g.run.out \in {Returns(NoneV), Returns(ListOf(<<>>))}
           /\ g.up.kind = "raise" /\ ~nullIteration => g.run.out = g.up
           /\ g.up.kind = "return" => g.run.out = g.up

(***************************************************************************)
(* C21 amended: the same, except that the guard handle_none_as_empty_list  *)
(* returns the empty list when the upstream call returned None;            *)
(* safe_client_call answers the error with None, handle_none_as_empty_list *)
(* with the empty list.                                                    *)
(***************************************************************************)
C21_GuardedCallMapsNullIterationAndNone ==
    \A k \in 1..Len(lastGuarded) :
        LET g == lastGuarded[k]
            nullIteration == /\ g.up.kind = "raise"
                             /\ g.up.exc.type = "TypeError"
                             /\ Contains(g.up.exc.msg, NoneIterMsg)
            decorator == g.guard = "handle_none_as_empty_list"
        IN /\ Len(g.run.calls) = 1
           /\ nullIteration =>
                 g.run.out = Returns(IF decorator THEN ListOf(<<>>) ELSE NoneV)
           /\ g.up.kind = "raise" /\ ~nullIteration => g.run.out = g.up
           /\ g.up.kind = "return" =>
                 g.run.out = IF decorator /\ g.up.val.kind = "none"
                             THEN Returns(ListOf(<<>>)) ELSE g.up

\* safe_client_call has answered the null-iteration TypeError with None.
C21_Witness ==
    /\ lastGuarded # <<>>
    /\ lastGuarded[1].guard = "safe_client_call"
    /\ lastGuarded[1].up = Raises(Exc("TypeError", NoneIterMsg))
    /\ lastGuarded[1].run.out = Returns(NoneV)

(***************************************************************************)
(* C22: the result of get_connection_info has exactly the keys hostname,   *)
(* username, api_key_expires, xplainable_version, python_version, org_id   *)
(* and team_id, so two connection infos that differ only in other fields,  *)
(* such as api_key, give identical results.                                *)
(***************************************************************************)
C22_ConnectionInfoHasNoSecrets ==
    \A n \in 1..Len(lastInfo) :
        \A r \in 1..Len(lastInfo[n].result) :
            LET result == lastInfo[n].result[r]
                keys == {"hostname", "username", "api_key_expires",
                         "xplainable_version", "python_version", "org_id", "team_id"}
            IN /\ DOMAIN result = keys
               /\ \A other \in ConnectionInfos :
                     (\A k \in keys : other[k] = lastInfo[n].info[k]) =>
                         SafeInfo(other) = result

\* A result for a connection info that holds an API key.
C22_Witness ==
    /\ lastInfo # <<>>
    /\ lastInfo[1].info["api_key"] = <<"b">>
    /\ lastInfo[1].result # <<>>
    /\ lastInfo[1].result[1]["hostname"] = <<"a">>

(***************************************************************************)
(* C23: list_team_models and list_deployments each invoke their upstream   *)
(* method exactly once per call and pass the team override as the keyword  *)
(* argument team_id: the override when one is given, None (written "")     *)
(* when none is given.                                                     *)
(***************************************************************************)
C23_TeamOverridePassedAsTeamId ==
    \A k \in 1..Len(lastInv) :
        LET i == lastInv[k]
        IN i.tool \in {"list_team_models", "list_deployments"} /\ i.got.outcome = "ok" =>
              i.run.calls = <<Call(i.tool, "team_id", i.override)>>

(***************************************************************************)
(* C24: the result of list_tools() always contains the categories          *)
(* discovery, read and write; total_tools is the sum of the lengths of     *)
(* those three lists, and each count of the summary is the length of its   *)
(* category's list.                                                        *)
(***************************************************************************)
C24_ListToolsCategoriesAndCounts ==
    \A k \in 1..Len(lastList) :
        LET r == lastList[k]
        IN /\ {"discovery", "read", "write"} \subseteq DOMAIN r.categories
           /\ r.total_tools = Len(r.categories["discovery"])
                                + Len(r.categories["read"])
                                + Len(r.categories["write"])
           /\ r.summary.discovery_tools = Len(r.categories["discovery"])
           /\ r.summary.read_tools = Len(r.categories["read"])
           /\ r.summary.write_tools = Len(r.categories["write"])

(***************************************************************************)
(* C25: two processes that run add_tool_to_service on the same service     *)
(* file for two different tools, each having read the file before the      *)
(* other wrote it, both report 'added', and the file then holds only one   *)
(* of the two tools: the one written last.                                 *)
(***************************************************************************)
C25_ConcurrentAddLosesOneTool ==
    \A p, q \in Procs :
        LET a == adders[p]
            b == adders[q]
        IN /\ p # q
           /\ a.pc = "done" /\ b.pc = "done"
           /\ a.result = "added" /\ b.result = "added"
           /\ a.info[1].mcp_name # b.info[1].mcp_name
           /\ a.current = b.current
           /\ b.over # b.current
           => /\ Defines(serviceFile, b.info[1].mcp_name)
              /\ ~Defines(serviceFile, a.info[1].mcp_name)

C25_Witness ==
    /\ adders[1].pc = "done" /\ adders[2].pc = "done"
    /\ adders[1].result = "added" /\ adders[2].result = "added"
    /\ adders[1].info[1].mcp_name # adders[2].info[1].mcp_name
    /\ adders[1].current = adders[2].current
    /\ Cardinality({m \in 1..Len(Methods) :
                       Defines(serviceFile, Service \o "_" \o Methods[m])}) = 1

(***************************************************************************)
(* C26: get_client() takes no lock.  Two callers of the same module that   *)
(* both pass the test of the global before either has stored a client     *)
(* construct it twice and can return different instances; two callers of   *)
(* a module return different instances only when requests run in threads   *)
(* and the client of the module was constructed more than once.  When      *)
(* requests are served one at a time every module constructs its client    *)
(* once and all its callers return the same instance.                      *)
(***************************************************************************)
C26_UnlockedSingleton ==
    /\ \A p, q \in Procs :
          LET a == callers[p]
              b == callers[q]
          IN /\ a.pc = "done" /\ b.pc = "done"
             /\ a.outcome = "ok" /\ b.outcome = "ok"
             /\ a.mod = b.mod
             /\ a.ret # b.ret
             => /\ dispatch = "threads"
                /\ ctorCalls[a.mod] >= 2
    /\ dispatch = "serial" =>
          built = Cardinality({m \in ClientModules : client[m] # None})

C26_Witness ==
    /\ callers[1].pc = "done" /\ callers[2].pc = "done"
    /\ callers[1].outcome = "ok" /\ callers[2].outcome = "ok"
    /\ callers[1].mod = "server" /\ callers[2].mod = "server"
    /\ callers[1].sawNone /\ callers[2].sawNone
    /\ callers[1].ret # callers[2].ret
    /\ built = 2

(***************************************************************************)
(* C27: in a run of the sync workflow the service files and the aggregator *)
(* are written only when --sync-files was given, and only after the report *)
(* of the run has been written; a run without the flag leaves the service  *)
(* file and the aggregator as they were.                                   *)
(***************************************************************************)
C27_FilesWrittenOnlyWithFlagAfterReport ==
    /\ [](/\ \A k \in 1..Len(run.events) :
                run.events[k] \in {"service_files", "aggregator"} =>
                   /\ run.args[1].sync_files
                   /\ \E j \in 1..(k - 1) : run.events[j] = "json"
          /\ run.args # <<>> /\ ~run.args[1].sync_files =>
                serviceFile = run.before /\ initFile = run.initBefore)
    /\ [][serviceFile' # serviceFile \/ initFile' # initFile =>
             /\ run.args[1].sync_files
             /\ run.report # <<>>
             /\ lastReport = run.report
             /\ run.events # <<>> /\ run.events[1] = "json"]_vars

C27_Witness ==
    /\ run.pc = "done"
    /\ run.args[1].sync_files
    /\ \E k \in 1..Len(run.events) : run.events[k] = "service_files"
    /\ serviceFile # run.before
    /\ run.before # NoFile

\* The tools of Methods a text defines right under a decorator line.
DecoratedIn(content) ==
    {m \in 1..Len(Methods) :
        \E i \in 1..(Len(content) - 1) :
            IsDecorator(content[i]) /\ IsDefOf(content[i + 1], McpName(m))}

(***************************************************************************)
(* C28: updating one tool of a service file leaves every other tool of the *)
(* file as it was (decorator line, signature and body), so the decorated   *)
(* tools other than the updated one are the same before and after.         *)
(***************************************************************************)
C28_UpdateLeavesOtherToolsAlone ==
    \A k \in 1..Len(lastSteps) :
        LET st == lastSteps[k]
        IN st.result = "updated" =>
              \A m \in DecoratedIn(st.before) :
                  McpName(m) # st.name => m \in DecoratedIn(st.after)

(***************************************************************************)
(* C29: the sync converges.  When a run with --sync-files has added every  *)
(* missing tool without error, the report of the following run, made with  *)
(* the same upstream methods, has no missing tool and sync_required false  *)
(* (so that the run exits with status 0).                                  *)
(***************************************************************************)
C29_SyncConverges ==
    /\ run.pc \in {"reported", "materialized"}
    /\ lastRun # <<>>
    /\ lastRun[1].synced
    /\ lastRun[1].report[1].missing_tools # {}
    /\ runs # <<>>
    /\ runs[Len(runs)].results.added = Cardinality(lastRun[1].report[1].missing_tools)
    => /\ run.report[1].missing_tools = {}
       /\ ~run.report[1].sync_required

(***************************************************************************)
(* C30: code generation and the static scan round-trip.  A tool rendered   *)
(* by generate_tool_implementation from a module, a method and a category  *)
(* and merged into its service file is found by the static scan of that    *)
(* file under the name module_method, with the module as its service       *)
(* module and with the generated category, whatever the upstream           *)
(* docstring holds.                                                        *)
(***************************************************************************)
C30_GeneratedToolsScanBack ==
    /\ lastScan # <<>>
    /\ lastScan[1].file = serviceFile
    /\ lastSteps # <<>>
    /\ lastSteps[1].result \in {"added", "updated"}
    => \A info \in ScanInfos :
          lastSteps[1].code = Render(info) =>
             [name |-> info.module \o "_" \o info.method, module |-> info.module,
              category |-> info.category] \in lastScan[1].tools

====
